---- MODULE Spec2Model ----
(***************************************************************************)
(* Shadow-Hunting-Attack: the inference algorithms of the repository.      *)
(*                                                                         *)
(*   identify_server_coverage    Server-Coverage-Identifier/               *)
(*                               iteration_test.py                         *)
(*   identify_server_sharing     Attacker-Instances-Proliferation/         *)
(*                               scaled-out-instances-group.py             *)
(*   binary_search_localization  Attacker-Victim-Server-Sharing-Identifier/*)
(*                               target_victim_localization/               *)
(*                               target_victim_locator.py                  *)
(*                                                                         *)
(* One behaviour runs one of the programs (variable program); the HTTP     *)
(* oracles (/lock, /check, /instance_id, the victim) are the environment   *)
(* and answer nondeterministically.                                        *)
(***************************************************************************)
EXTENDS Integers, Sequences, FiniteSets, TLC

(***************************************************************************)
(* Bounds of the model.                                                    *)
(***************************************************************************)
\* number of distinct instance URLs handed to identify_server_coverage
NumInstances == 4

(***************************************************************************)
(* Values.                                                                 *)
(***************************************************************************)
\* Python's None for an Optional[int]: outside the range of \d+ (>= 0)
None == -1

\* the threshold of the run (spec.md section 8 example: threshold = 1000)
ThresholdValue == 1000

\* what extract_count can return for a /check body: None (no count[0]
\* match, or a failed request whose text is "") or the matched integer
CountValues == {None, 50, 200, 1100, 1400, 1500}

UrlNames == <<"A", "B", "C", "D", "E", "F">>

\* the instance URLs of the run
URLS == {UrlNames[i] : i \in 1..NumInstances}

Range(s) == {s[i] : i \in 1..Len(s)}

VARIABLES
    program,                \* the function this behaviour runs
    pc,                     \* its position
    oracle,                 \* "any": arbitrary answers; "ideal": see Ideal
    server,                 \* ideal oracle: the server each instance is on
    MEMCHECK_THRESHOLD,     \* iteration_test.py:54, None or a number
    instance_urls,          \* argument of identify_server_coverage
    remaining,              \* Set[str]
    groups,                 \* list of groups, in append order
    lock_url,
    check_urls,
    check_results_round1,
    candidate_urls,
    check_results_round2,
    verified_members,
    SERVER_SHARING_THRESHOLD,   \* scaled-out-instances-group.py:61
    all_instance_ids,       \* argument of identify_server_sharing
    lock_instance_id,
    measurements,           \* the /check results, in completion order
    aggregated,             \* measurements read so far by the loop of line 194
    inst_metric,
    instances,              \* argument of binary_search_localization
    coresident,             \* ideal oracle: the instance on the victim's server
    candidates,
    step,
    left,
    right,
    probed_median,
    result,                 \* the value binary_search_localization returns
    cpu_sets,               \* argument of find_candidate_set
    idx,                    \* index of enumerate(cpu_sets), from 0
    tested,                 \* the sets locked and measured so far, in order
    candidate_idx,          \* the value find_candidate_set returns
    reported,               \* the instance main() prints as co-resident
    runs,                   \* argument of measure_victim_latency
    victim_responses,       \* what the victim did with each request so far
    latencies,
    median_latency,         \* the value measure_victim_latency returns
    url_list,               \* load_urls(): the attacker URLs, in file order
    info_responses,         \* the /info response to the request of each entry
    pending_futures,        \* entries as_completed has not yielded yet
    arch_to_urls,           \* dict of group_by_architecture, insertion order
    ipc,                    \* position inside run_iteration_for_lock
    lock_response,          \* the /lock request of the call: its URL, its fate
    futures,                \* the tasks of the current thread pool
    iteration_results,      \* dict results of run_iteration_for_lock
    check_response,         \* the /check response of one probe
    parsed_sum,             \* sum_count of call_check_and_get_metric_and_id
    extracted,              \* the value extract_count returns
    id_response,            \* the /instance_id response
    worker_result,          \* what call_check_and_get_metric_and_id returns
    mpc,                    \* position inside measure_latency_with_lock
    lock_futures            \* the /lock tasks of trigger_lock_async

\* the variables of identify_server_coverage alone
CoverageVars ==
    <<MEMCHECK_THRESHOLD, instance_urls, lock_url, check_urls,
      check_results_round1, candidate_urls, check_results_round2,
      verified_members>>

\* the variables of identify_server_sharing alone
SharingVars ==
    <<SERVER_SHARING_THRESHOLD, all_instance_ids, lock_instance_id,
      measurements, aggregated, inst_metric>>

\* the variables of binary_search_localization alone
LocatorVars ==
    <<instances, coresident, candidates, step, left, right, probed_median,
      result>>

\* the variables of find_candidate_set and main() of
\* target_victim_locator.py alone
MainVars == <<cpu_sets, idx, tested, candidate_idx, reported>>

\* the variables of measure_victim_latency alone
MeasureVars == <<runs, victim_responses, latencies, median_latency>>

\* the variables of prepare_attacker_sets.py alone
PrepareVars == <<url_list, info_responses, pending_futures, arch_to_urls>>

\* the variables of the thread pools of the two partitioners alone
FanOutVars == <<ipc, lock_response, futures, iteration_results>>

\* the variables of one /check probe and its parsers alone
ProbeVars ==
    <<check_response, parsed_sum, extracted, id_response, worker_result>>

\* the variables of measure_latency_with_lock alone
LockVars == <<mpc, lock_futures>>

vars == <<program, pc, oracle, server, remaining, groups, CoverageVars,
          SharingVars, LocatorVars, MainVars, MeasureVars, PrepareVars,
          FanOutVars, ProbeVars, LockVars>>

\* a program that is not run keeps its variables at these values
CoverageIdle ==
    /\ MEMCHECK_THRESHOLD = None
    /\ instance_urls = <<>>
    /\ lock_url = ""
    /\ check_urls = {}
    /\ check_results_round1 = <<>>
    /\ candidate_urls = {}
    /\ check_results_round2 = <<>>
    /\ verified_members = {}

SharingIdle ==
    /\ SERVER_SHARING_THRESHOLD = None
    /\ all_instance_ids = <<>>
    /\ lock_instance_id = ""
    /\ measurements = <<>>
    /\ aggregated = 0
    /\ inst_metric = <<>>

LocatorIdle ==
    /\ instances = <<>>
    /\ coresident = ""
    /\ candidates = <<>>
    /\ step = 0
    /\ left = <<>>
    /\ right = <<>>
    /\ probed_median = 0
    /\ result = ""

\* candidate_idx before find_candidate_set has returned
Unassigned == -2

MainIdle ==
    /\ cpu_sets = <<>>
    /\ idx = 0
    /\ tested = <<>>
    /\ candidate_idx = Unassigned
    /\ reported = ""

MeasureIdle ==
    /\ runs = 0
    /\ victim_responses = <<>>
    /\ latencies = <<>>
    /\ median_latency = 0

PrepareIdle ==
    /\ url_list = <<>>
    /\ info_responses = <<>>
    /\ pending_futures = {}
    /\ arch_to_urls = <<>>

\* no call of run_iteration_for_lock is active and no thread pool exists
FanOutIdle ==
    /\ ipc = "idle"
    /\ lock_response = [url |-> "", state |-> ""]
    /\ futures = <<>>
    /\ iteration_results = <<>>

\* no call of measure_latency_with_lock is active, no /lock task exists
LockIdle ==
    /\ mpc = "idle"
    /\ lock_futures = <<>>

\* no probe is in progress
ProbeIdle ==
    /\ check_response = [ok |-> FALSE, text |-> <<>>]
    /\ parsed_sum = None
    /\ extracted = None
    /\ id_response = [kind |-> "error", instance_id |-> "<missing>"]
    /\ worker_result = [instance_id |-> "", sum_count |-> None]

(***************************************************************************)
(* Server Coverage Identifier (iteration_test.py).                         *)
(*                                                                         *)
(* remaining is a Python set; check_urls, candidate_urls, verified_members *)
(* and a group's members are lists without repetition whose order the      *)
(* code never reads, so all of them are sets here.  A group is the record  *)
(* {"lock_url": .., "members": ..}.                                        *)
(***************************************************************************)

\* the lists main() can pass: distinct URLs, or a URL listed twice
CoverageInputs ==
    {SubSeq(UrlNames, 1, n) : n \in 0..NumInstances}
      \cup {<<UrlNames[1], UrlNames[1]>>,
            <<UrlNames[1], UrlNames[2], UrlNames[1]>>}

\* the co-residency relations of the ideal oracle: every partition of URLS,
\* as the server number of each URL (URL i is on one of the servers 1..i)
ServerMaps ==
    {f \in [URLS -> 1..NumInstances] :
        \A i \in 1..NumInstances :
            /\ f[UrlNames[i]] <= i
            /\ f[UrlNames[i]] > 1 =>
                 \E j \in 1..(i - 1) : f[UrlNames[j]] = f[UrlNames[i]] - 1}

NoServers == [u \in URLS |-> 0]

\* lines 181-185 and 203-209 with a strict comparison
AboveThresholdStrict(count_value) ==
    count_value # None /\ count_value > MEMCHECK_THRESHOLD

\* count_value is not None and count_value >= MEMCHECK_THRESHOLD
AboveThreshold(count_value) ==
    count_value # None /\ count_value >= MEMCHECK_THRESHOLD

\* the ideal oracle: a probe is at or above the threshold exactly when the
\* probed instance is on the server of the lock instance
IdealResults(lock, results) ==
    \A u \in DOMAIN results :
        AboveThreshold(results[u]) <=> server[u] = server[lock]

\* run_iteration_for_lock(lock_url, check_urls): /lock, the settle delay,
\* one /check per URL, and the mapping url -> extract_count(text) once every
\* future has completed.  The set of mappings the oracle can produce.
RunIterationForLock(lock, urls) ==
    {results \in [urls -> CountValues] :
        oracle = "ideal" => IdealResults(lock, results)}

\* check_results.get(url)
Get(results, url) == IF url \in DOMAIN results THEN results[url] ELSE None

\* lines 181-185
CandidateUrls(results) == {url \in DOMAIN results : AboveThreshold(results[url])}

\* lines 203-209
VerifiedMembers(urls, results) ==
    {url \in urls : AboveThreshold(Get(results, url))}

\* group_members with the verified members left out
GroupMembersLockOnly(lock, verified) == {lock}

\* lines 212-213: list(set([lock_url] + verified_members))
GroupMembers(lock, verified) == {lock} \cup verified

CoverageLocals ==
    <<lock_url, check_urls, check_results_round1, candidate_urls,
      check_results_round2, verified_members>>

\* what no step of identify_server_coverage writes
CoverageFixed ==
    <<ProbeVars, LockVars,
      program, oracle, server, MEMCHECK_THRESHOLD, instance_urls, SharingVars,
      LocatorVars, MainVars, MeasureVars, PrepareVars>>

CoverageConfig == <<FanOutVars, CoverageFixed>>

InitCoverage ==
    /\ program = "identify_server_coverage"
    /\ pc = "start"
    /\ oracle = "any"
    /\ server = NoServers
    /\ MEMCHECK_THRESHOLD \in {None, ThresholdValue}
    /\ instance_urls \in CoverageInputs
    /\ remaining = {}
    /\ groups = <<>>
    /\ lock_url = ""
    /\ check_urls = {}
    /\ check_results_round1 = <<>>
    /\ candidate_urls = {}
    /\ check_results_round2 = <<>>
    /\ verified_members = {}
    /\ SharingIdle
    /\ LocatorIdle
    /\ MainIdle
    /\ MeasureIdle
    /\ PrepareIdle
    /\ FanOutIdle
    /\ LockIdle
    /\ ProbeIdle

\* the same program against the ideal oracle
InitCoverageIdeal ==
    /\ program = "identify_server_coverage"
    /\ pc = "start"
    /\ oracle = "ideal"
    /\ server \in ServerMaps
    /\ MEMCHECK_THRESHOLD = ThresholdValue
    /\ instance_urls \in CoverageInputs
    /\ remaining = {}
    /\ groups = <<>>
    /\ lock_url = ""
    /\ check_urls = {}
    /\ check_results_round1 = <<>>
    /\ candidate_urls = {}
    /\ check_results_round2 = <<>>
    /\ verified_members = {}
    /\ SharingIdle
    /\ LocatorIdle
    /\ MainIdle
    /\ MeasureIdle
    /\ PrepareIdle
    /\ FanOutIdle
    /\ LockIdle
    /\ ProbeIdle

\* lines 149-159: the threshold check, then remaining = set(instance_urls)
CoverageEnter ==
    /\ program = "identify_server_coverage"
    /\ pc = "start"
    /\ IF MEMCHECK_THRESHOLD = None
         THEN /\ pc' = "done"
              /\ UNCHANGED remaining
         ELSE /\ pc' = "loop"
              /\ remaining' = Range(instance_urls)
    /\ UNCHANGED <<groups, CoverageLocals, CoverageConfig>>

\* lines 161-168: lock_url = next(iter(remaining)), any element; the
\* iteration's locals of the previous iteration are dead and start empty
CoverageSelect ==
    /\ program = "identify_server_coverage"
    /\ pc = "loop"
    /\ \E url \in remaining :
         /\ lock_url' = url
         /\ check_urls' = remaining \ {url}
         /\ remaining # {url}
    /\ pc' = "round1"
    /\ check_results_round1' = <<>>
    /\ candidate_urls' = {}
    /\ check_results_round2' = <<>>
    /\ verified_members' = {}
    /\ UNCHANGED <<remaining, groups, CoverageConfig>>

\* lines 161-175 with the last instance locked and probed like the others
CoverageSelectLastProbes ==
    /\ program = "identify_server_coverage"
    /\ pc = "loop"
    /\ \E url \in remaining :
         /\ remaining = {url}
         /\ lock_url' = url
         /\ check_urls' = remaining
    /\ pc' = "round1"
    /\ check_results_round1' = <<>>
    /\ candidate_urls' = {}
    /\ check_results_round2' = <<>>
    /\ verified_members' = {}
    /\ UNCHANGED <<remaining, groups, CoverageConfig>>

\* lines 161-175: only one instance left, a singleton group and break
CoverageSelectLast ==
    /\ program = "identify_server_coverage"
    /\ pc = "loop"
    /\ \E url \in remaining :
         /\ remaining = {url}
         /\ lock_url' = url
         /\ check_urls' = {}
         /\ groups' = Append(groups, [lock_url |-> url, members |-> {url}])
         /\ remaining' = remaining \ {url}
    /\ pc' = "done"
    /\ check_results_round1' = <<>>
    /\ candidate_urls' = {}
    /\ check_results_round2' = <<>>
    /\ verified_members' = {}
    /\ UNCHANGED CoverageConfig

\* lines 178-193: Round 1 finds no candidate, the group is the lock alone
CoverageRound1Alone ==
    /\ program = "identify_server_coverage"
    /\ pc = "round1"
    /\ \E results \in RunIterationForLock(lock_url, check_urls) :
         /\ CandidateUrls(results) = {}
         /\ check_results_round1' = results
         /\ candidate_urls' = {}
    /\ groups' = Append(groups, [lock_url |-> lock_url, members |-> {lock_url}])
    /\ remaining' = remaining \ {lock_url}
    /\ pc' = "loop"
    /\ UNCHANGED <<lock_url, check_urls, check_results_round2,
                   verified_members, CoverageConfig>>

\* lines 178-197: Round 1 finds candidates
CoverageRound1 ==
    /\ program = "identify_server_coverage"
    /\ pc = "round1"
    /\ \E results \in RunIterationForLock(lock_url, check_urls) :
         /\ CandidateUrls(results) # {}
         /\ check_results_round1' = results
         /\ candidate_urls' = CandidateUrls(results)
    /\ pc' = "round2"
    /\ UNCHANGED <<remaining, groups, lock_url, check_urls,
                   check_results_round2, verified_members, CoverageConfig>>

\* CoverageRound2 with lines 224-225 discarding only lock_url
CoverageRound2KeepsMembers ==
    /\ program = "identify_server_coverage"
    /\ pc = "round2"
    /\ \E results \in RunIterationForLock(lock_url, candidate_urls) :
         LET verified == VerifiedMembers(candidate_urls, results)
             group_members == GroupMembers(lock_url, verified)
         IN  /\ check_results_round2' = results
             /\ verified_members' = verified
             /\ groups' = Append(groups, [lock_url |-> lock_url,
                                          members |-> group_members])
             /\ remaining' = remaining \ {lock_url}
    /\ pc' = "loop"
    /\ UNCHANGED <<lock_url, check_urls, check_results_round1,
                   candidate_urls, CoverageConfig>>

\* CoverageRound2 with Round 2 probing and reading check_urls again
CoverageRound2ProbesAll ==
    /\ program = "identify_server_coverage"
    /\ pc = "round2"
    /\ \E results \in RunIterationForLock(lock_url, check_urls) :
         LET verified == VerifiedMembers(check_urls, results)
             group_members == GroupMembers(lock_url, verified)
         IN  /\ check_results_round2' = results
             /\ verified_members' = verified
             /\ groups' = Append(groups, [lock_url |-> lock_url,
                                          members |-> group_members])
             /\ remaining' = remaining \ group_members
    /\ pc' = "loop"
    /\ UNCHANGED <<lock_url, check_urls, check_results_round1,
                   candidate_urls, CoverageConfig>>

\* CoverageRound2 with lines 224-225 discarding every Round-1 candidate
CoverageRound2DropsCandidates ==
    /\ program = "identify_server_coverage"
    /\ pc = "round2"
    /\ \E results \in RunIterationForLock(lock_url, candidate_urls) :
         LET verified == VerifiedMembers(candidate_urls, results)
             group_members == GroupMembers(lock_url, verified)
         IN  /\ check_results_round2' = results
             /\ verified_members' = verified
             /\ groups' = Append(groups, [lock_url |-> lock_url,
                                          members |-> group_members])
             /\ remaining' = remaining \ ({lock_url} \cup candidate_urls)
    /\ pc' = "loop"
    /\ UNCHANGED <<lock_url, check_urls, check_results_round1,
                   candidate_urls, CoverageConfig>>

\* lines 199-225: Round 2 on the candidates, the group is committed
CoverageRound2 ==
    /\ program = "identify_server_coverage"
    /\ pc = "round2"
    /\ \E results \in RunIterationForLock(lock_url, candidate_urls) :
         LET verified == VerifiedMembers(candidate_urls, results)
             group_members == GroupMembers(lock_url, verified)
         IN  /\ check_results_round2' = results
             /\ verified_members' = verified
             /\ groups' = Append(groups, [lock_url |-> lock_url,
                                          members |-> group_members])
             /\ remaining' = remaining \ group_members
    /\ pc' = "loop"
    /\ UNCHANGED <<lock_url, check_urls, check_results_round1,
                   candidate_urls, CoverageConfig>>

\* lines 161, 227-232: remaining is empty, return groups
CoverageReturn ==
    /\ program = "identify_server_coverage"
    /\ pc = "loop"
    /\ remaining = {}
    /\ pc' = "done"
    /\ UNCHANGED <<remaining, groups, CoverageLocals, CoverageConfig>>

NextCoverage ==
    \/ CoverageEnter
    \/ CoverageSelect
    \/ CoverageSelectLast
    \/ CoverageRound1Alone
    \/ CoverageRound1
    \/ CoverageRound2
    \/ CoverageReturn

SpecCoverage == InitCoverage /\ [][NextCoverage]_vars

SpecCoverageIdeal == InitCoverageIdeal /\ [][NextCoverage]_vars

(***************************************************************************)
(* Server Sharing Identifier, single URL setting                           *)
(* (scaled-out-instances-group.py).                                        *)
(*                                                                         *)
(* All instances answer behind one URL: which instance handles a request   *)
(* is the platform's choice.  A group is a list(set), a set here.          *)
(***************************************************************************)

\* mem-check requests per iteration (60 in the source, line 54)
NUM_CHECK_REQUESTS == 2

\* float("inf"): above every finite sum of counts
Inf == 1000000

\* the instance IDs of main(), lines 238-243
IdNames == <<"instance-A", "instance-B", "instance-C">>

\* the instances the platform routes to
IDS == Range(IdNames)

\* the lists of known instance IDs: a discovery that found all, some or none
\* of the instances, or listed one twice
SharingInputs ==
    {SubSeq(IdNames, 1, n) : n \in 0..Len(IdNames)}
      \cup {<<IdNames[1], IdNames[1]>>}

\* call_instance_id(): the instance_id of the answering instance, or
\* "unknown" when the request fails or the key is missing
InstanceIdAnswers == IDS \cup {"unknown"}

\* the finite values of sum(counts)
SumValues == {200, 1000, 1500}

\* call_check_and_get_metric_and_id(): the record it returns; a failed
\* /check gives ("unknown", inf), a body without counts gives inf
CheckAnswers ==
    [instance_id : InstanceIdAnswers, sum_count : SumValues \cup {Inf}]

Max(a, b) == IF a >= b THEN a ELSE b

\* lines 195-206 with an unknown instance taken for the lock instance
AggregateUnknownToLock(metric, m, rem) ==
    LET inst_id == IF m.instance_id = "unknown"
                     THEN lock_instance_id ELSE m.instance_id
        sum_count == m.sum_count
    IN  IF inst_id \notin rem THEN metric
        ELSE IF sum_count = Inf THEN metric
        ELSE IF inst_id \notin DOMAIN metric
             THEN [id \in DOMAIN metric \cup {inst_id} |->
                      IF id = inst_id THEN sum_count ELSE metric[id]]
             ELSE [metric EXCEPT ![inst_id] = Max(@, sum_count)]

\* lines 195-206 with the test of line 198 left out
AggregateUnfiltered(metric, m, rem) ==
    LET inst_id == m.instance_id
        sum_count == m.sum_count
    IN  IF sum_count = Inf THEN metric
        ELSE IF inst_id \notin DOMAIN metric
             THEN [id \in DOMAIN metric \cup {inst_id} |->
                      IF id = inst_id THEN sum_count ELSE metric[id]]
             ELSE [metric EXCEPT ![inst_id] = Max(@, sum_count)]

\* lines 195-206 with line 206 storing the latest value
AggregateLastWins(metric, m, rem) ==
    LET inst_id == m.instance_id
        sum_count == m.sum_count
    IN  IF inst_id \notin rem THEN metric
        ELSE IF sum_count = Inf THEN metric
        ELSE [id \in DOMAIN metric \cup {inst_id} |->
                 IF id = inst_id THEN sum_count ELSE metric[id]]

\* lines 195-206: one measurement m folded into inst_metric
Aggregate(metric, m, rem) ==
    LET inst_id == m.instance_id
        sum_count == m.sum_count
    IN  IF inst_id \notin rem THEN metric
        ELSE IF sum_count = Inf THEN metric
        ELSE IF inst_id \notin DOMAIN metric
             THEN [id \in DOMAIN metric \cup {inst_id} |->
                      IF id = inst_id THEN sum_count ELSE metric[id]]
             ELSE [metric EXCEPT ![inst_id] = Max(@, sum_count)]

\* lines 213-218 with the group starting empty
SharingGroupWithoutLock(lock, metric) ==
    {inst_id \in DOMAIN metric :
        inst_id # lock /\ metric[inst_id] >= SERVER_SHARING_THRESHOLD}

\* lines 213-218: the lock instance and every instance at or above the
\* threshold
SharingGroup(lock, metric) ==
    {lock} \cup {inst_id \in DOMAIN metric :
                    inst_id # lock /\ metric[inst_id] >= SERVER_SHARING_THRESHOLD}

\* what no step of identify_server_sharing writes
SharingFixed ==
    <<ProbeVars, LockVars,
      program, oracle, server, SERVER_SHARING_THRESHOLD, all_instance_ids,
      CoverageVars, LocatorVars, MainVars, MeasureVars, PrepareVars>>

SharingConfig == <<FanOutVars, SharingFixed>>

InitSharing ==
    /\ program = "identify_server_sharing"
    /\ pc = "start"
    /\ oracle = "any"
    /\ server = NoServers
    /\ SERVER_SHARING_THRESHOLD \in {None, ThresholdValue}
    /\ all_instance_ids \in SharingInputs
    /\ remaining = {}
    /\ groups = <<>>
    /\ lock_instance_id = ""
    /\ measurements = <<>>
    /\ aggregated = 0
    /\ inst_metric = <<>>
    /\ CoverageIdle
    /\ LocatorIdle
    /\ MainIdle
    /\ MeasureIdle
    /\ PrepareIdle
    /\ FanOutIdle
    /\ LockIdle
    /\ ProbeIdle

\* lines 154-164 with the test of line 157 left out
SharingEnterUnchecked ==
    /\ program = "identify_server_sharing"
    /\ pc = "start"
    /\ remaining' = Range(all_instance_ids)
    /\ groups' = <<>>
    /\ pc' = "loop"
    /\ UNCHANGED <<lock_instance_id, measurements, aggregated, inst_metric,
                   SharingConfig>>

\* lines 154-164: remaining = set(all_instance_ids), then the threshold check
SharingEnter ==
    /\ program = "identify_server_sharing"
    /\ pc = "start"
    /\ remaining' = Range(all_instance_ids)
    /\ groups' = <<>>
    /\ pc' = IF SERVER_SHARING_THRESHOLD = None THEN "done" ELSE "loop"
    /\ UNCHANGED <<lock_instance_id, measurements, aggregated, inst_metric,
                   SharingConfig>>

\* lines 166-169: /lock, then /instance_id names the instance that took it;
\* the measurements of the previous iteration are dead and start empty
SharingCallLock ==
    /\ program = "identify_server_sharing"
    /\ pc = "loop"
    /\ remaining # {}
    /\ lock_instance_id' \in InstanceIdAnswers
    /\ measurements' = <<>>
    /\ aggregated' = 0
    /\ inst_metric' = <<>>
    /\ pc' = "locked"
    /\ UNCHANGED <<remaining, groups, SharingConfig>>

\* lines 172-174: the lock instance is unknown, continue
SharingRetryUnknown ==
    /\ program = "identify_server_sharing"
    /\ pc = "locked"
    /\ lock_instance_id = "unknown"
    /\ pc' = "loop"
    /\ UNCHANGED <<remaining, groups, lock_instance_id, measurements,
                   aggregated, inst_metric, SharingConfig>>

\* lines 177-179: the lock instance is not in remaining, continue
SharingRetryGrouped ==
    /\ program = "identify_server_sharing"
    /\ pc = "locked"
    /\ lock_instance_id # "unknown"
    /\ lock_instance_id \notin remaining
    /\ pc' = "loop"
    /\ UNCHANGED <<remaining, groups, lock_instance_id, measurements,
                   aggregated, inst_metric, SharingConfig>>

\* lines 181-189 reached without the tests of lines 172 and 177
SharingProbeAnyLock ==
    /\ program = "identify_server_sharing"
    /\ pc = "locked"
    /\ measurements' \in [1..NUM_CHECK_REQUESTS -> CheckAnswers]
    /\ pc' = "aggregate"
    /\ UNCHANGED <<remaining, groups, lock_instance_id, aggregated,
                   inst_metric, SharingConfig>>

\* lines 181-189: NUM_CHECK_REQUESTS concurrent mem-checks, collected in
\* the order they complete
SharingProbe ==
    /\ program = "identify_server_sharing"
    /\ pc = "locked"
    /\ lock_instance_id # "unknown"
    /\ lock_instance_id \in remaining
    /\ measurements' \in [1..NUM_CHECK_REQUESTS -> CheckAnswers]
    /\ pc' = "aggregate"
    /\ UNCHANGED <<remaining, groups, lock_instance_id, aggregated,
                   inst_metric, SharingConfig>>

\* lines 193-206: one turn of the loop over measurements
SharingAggregate ==
    /\ program = "identify_server_sharing"
    /\ pc = "aggregate"
    /\ aggregated < Len(measurements)
    /\ inst_metric' = Aggregate(inst_metric, measurements[aggregated + 1],
                                remaining)
    /\ aggregated' = aggregated + 1
    /\ UNCHANGED <<pc, remaining, groups, lock_instance_id, measurements,
                   SharingConfig>>

\* lines 208-226 with lines 224-226 left out
SharingCommitNothing ==
    /\ program = "identify_server_sharing"
    /\ pc = "aggregate"
    /\ aggregated = Len(measurements)
    /\ pc' = "loop"
    /\ UNCHANGED <<remaining, groups, lock_instance_id, measurements,
                   aggregated, inst_metric, SharingConfig>>

\* lines 208-226: the group is formed, removed from remaining and recorded
SharingCommit ==
    /\ program = "identify_server_sharing"
    /\ pc = "aggregate"
    /\ aggregated = Len(measurements)
    /\ LET group == SharingGroup(lock_instance_id, inst_metric)
       IN  /\ remaining' = remaining \ group
           /\ groups' = Append(groups, group)
    /\ pc' = "loop"
    /\ UNCHANGED <<lock_instance_id, measurements, aggregated, inst_metric,
                   SharingConfig>>

\* lines 166, 228: remaining is empty, return groups
SharingReturn ==
    /\ program = "identify_server_sharing"
    /\ pc = "loop"
    /\ remaining = {}
    /\ pc' = "done"
    /\ UNCHANGED <<remaining, groups, lock_instance_id, measurements,
                   aggregated, inst_metric, SharingConfig>>

NextSharing ==
    \/ SharingEnter
    \/ SharingCallLock
    \/ SharingRetryUnknown
    \/ SharingRetryGrouped
    \/ SharingProbe
    \/ SharingAggregate
    \/ SharingCommit
    \/ SharingReturn

SpecSharing == InitSharing /\ [][NextSharing]_vars

\* the script keeps running while a step is possible; which instance the
\* platform routes a request to is not fair
FairSpecSharing == SpecSharing /\ WF_vars(NextSharing)

\* either partitioner
SpecPartitioners ==
    (InitCoverage \/ InitSharing) /\ [][NextCoverage \/ NextSharing]_vars

(***************************************************************************)
(* Target Victim Locator, phase 2 (target_victim_locator.py).              *)
(*                                                                         *)
(* Latencies are in milliseconds.  measure_latency_with_lock triggers      *)
(* /lock on the tested instances, waits, and returns the median latency of *)
(* the victim, inf when every victim request failed.                       *)
(***************************************************************************)

\* longest candidate list handed to binary_search_localization
MaxCandidates == 8

\* --latency-threshold, 0.5 s in the example of spec.md section 8
LatencyThreshold == 500

InstanceNames == <<"x1", "x2", "x3", "x4", "x5", "x6", "x7", "x8", "x9",
                   "x10">>

LocatorInputs == {SubSeq(InstanceNames, 1, n) : n \in 0..MaxCandidates}

\* the medians measure_victim_latency can return
Latencies == {300, 500, 800, Inf}

\* most victim requests in one batch (--probe-runs)
MaxRuns == 4

\* what the victim does with one request: it answers with a good status
\* (ok) or the request raises RequestException, after elapsed milliseconds
VictimResponses == [ok : BOOLEAN, elapsed : Latencies \ {Inf}]

\* line 136 keeping every latency
AllLatencies(lats) == lats

\* line 136: [x for x in latencies if x != float("inf")]
FiniteLatencies(lats) == SelectSeq(lats, LAMBDA x : x # Inf)

\* statistics.median of a non-empty list: the middle value of the sorted
\* data, the mean of the two middle values when the count is even
Median(data) ==
    LET sorted == SortSeq(data, LAMBDA x, y : x < y)
        n == Len(data)
    IN  IF n % 2 = 1
          THEN sorted[(n + 1) \div 2]
          ELSE (sorted[n \div 2] + sorted[n \div 2 + 1]) \div 2

\* lines 139-140 returning 0.0 when no request succeeded
MeasureVictimLatencyZero(responses) ==
    LET lats == [k \in 1..Len(responses) |->
                     IF responses[k].ok THEN responses[k].elapsed ELSE Inf]
        finite_latencies == FiniteLatencies(lats)
    IN  IF finite_latencies = <<>> THEN 0 ELSE Median(finite_latencies)

\* lines 122-141: the latency of a failed request is float("inf"); the
\* result is inf when no latency is finite, else the median of the finite
\* ones
MeasureVictimLatency(responses) ==
    LET lats == [k \in 1..Len(responses) |->
                     IF responses[k].ok THEN responses[k].elapsed ELSE Inf]
        finite_latencies == FiniteLatencies(lats)
    IN  IF finite_latencies = <<>> THEN Inf ELSE Median(finite_latencies)

\* the victim is down: the answers to a batch of 0..MaxRuns requests, none
\* of which succeeds (a batch of 0 requests when probe_runs is 0)
OutageResponses ==
    UNION {[1..n -> {r \in VictimResponses : ~r.ok}] : n \in 0..MaxRuns}

\* is_above_threshold with a strict comparison
IsStrictlyAboveThreshold(median, latency_threshold) ==
    median > latency_threshold

\* lines 213-220
IsAboveThreshold(median, latency_threshold) ==
    median >= latency_threshold

\* the ideal oracle: the victim is slow exactly when the tested instances
\* include the one on its server
IdealMedian(urls, median) ==
    (median >= LatencyThreshold) <=> coresident \in Range(urls)

\* measure_latency_with_lock(instance_urls = urls, ...): the medians the
\* victim can show
MeasureLatencyWithLock(urls) ==
    IF oracle = "outage"
      THEN {MeasureVictimLatency(responses) : responses \in OutageResponses}
      ELSE {median \in Latencies :
                oracle = "ideal" => IdealMedian(urls, median)}

\* a split that tests one instance at a time
MidFirst(n) == 1

\* line 328: mid = len(candidates) // 2
Mid(n) == n \div 2

\* what no step of binary_search_localization writes
LocatorConfig ==
    <<FanOutVars, ProbeVars, LockVars,
      program, oracle, server, remaining, groups, instances, coresident,
      CoverageVars, SharingVars, MainVars, MeasureVars, PrepareVars>>

InitLocatorCommon ==
    /\ program = "binary_search_localization"
    /\ pc = "start"
    /\ server = NoServers
    /\ remaining = {}
    /\ groups = <<>>
    /\ instances \in LocatorInputs
    /\ candidates = <<>>
    /\ step = 0
    /\ left = <<>>
    /\ right = <<>>
    /\ probed_median = 0
    /\ result = ""
    /\ CoverageIdle
    /\ SharingIdle
    /\ MainIdle
    /\ MeasureIdle
    /\ PrepareIdle
    /\ FanOutIdle
    /\ LockIdle
    /\ ProbeIdle

InitLocator ==
    /\ oracle = "any"
    /\ coresident = ""
    /\ InitLocatorCommon

\* exactly one instance of the list is on the victim's server (none when the
\* list is empty)
InitLocatorIdeal ==
    /\ oracle = "ideal"
    /\ InitLocatorCommon
    /\ coresident \in
         IF instances = <<>> THEN {""} ELSE Range(instances)

\* lines 323-324
LocatorEnter ==
    /\ program = "binary_search_localization"
    /\ pc = "start"
    /\ candidates' = instances
    /\ step' = 0
    /\ pc' = "loop"
    /\ UNCHANGED <<left, right, probed_median, result, LocatorConfig>>

\* lines 326-350: one more step, the left half is locked and the victim
\* measured
BisectMeasure ==
    /\ program = "binary_search_localization"
    /\ pc = "loop"
    /\ Len(candidates) > 1
    /\ step' = step + 1
    /\ LET mid == Mid(Len(candidates))
       IN  /\ left' = SubSeq(candidates, 1, mid)
           /\ right' = SubSeq(candidates, mid + 1, Len(candidates))
    /\ probed_median' \in MeasureLatencyWithLock(left')
    /\ pc' = "measured"
    /\ UNCHANGED <<candidates, result, LocatorConfig>>

\* lines 352-354
BisectKeepLeft ==
    /\ program = "binary_search_localization"
    /\ pc = "measured"
    /\ IsAboveThreshold(probed_median, LatencyThreshold)
    /\ candidates' = left
    /\ pc' = "loop"
    /\ UNCHANGED <<step, left, right, probed_median, result, LocatorConfig>>

\* lines 355-357 with right = candidates[mid - 1:]
BisectKeepRightFromMid ==
    /\ program = "binary_search_localization"
    /\ pc = "measured"
    /\ ~IsAboveThreshold(probed_median, LatencyThreshold)
    /\ candidates' = <<left[Len(left)]>> \o right
    /\ pc' = "loop"
    /\ UNCHANGED <<step, left, right, probed_median, result, LocatorConfig>>

\* lines 355-357
BisectKeepRight ==
    /\ program = "binary_search_localization"
    /\ pc = "measured"
    /\ ~IsAboveThreshold(probed_median, LatencyThreshold)
    /\ candidates' = right
    /\ pc' = "loop"
    /\ UNCHANGED <<step, left, right, probed_median, result, LocatorConfig>>

\* lines 326, 359-360: one candidate is left, return candidates[0]
BisectReturn ==
    /\ program = "binary_search_localization"
    /\ pc = "loop"
    /\ Len(candidates) = 1
    /\ result' = candidates[1]
    /\ pc' = "done"
    /\ UNCHANGED <<candidates, step, left, right, probed_median,
                   LocatorConfig>>

\* lines 326, 359: candidates[0] of an empty list raises IndexError
BisectIndexError ==
    /\ program = "binary_search_localization"
    /\ pc = "loop"
    /\ Len(candidates) = 0
    /\ pc' = "IndexError"
    /\ UNCHANGED <<candidates, step, left, right, probed_median, result,
                   LocatorConfig>>

NextLocator ==
    \/ LocatorEnter
    \/ BisectMeasure
    \/ BisectKeepLeft
    \/ BisectKeepRight
    \/ BisectReturn
    \/ BisectIndexError

SpecLocator == InitLocator /\ [][NextLocator]_vars

SpecLocatorIdeal == InitLocatorIdeal /\ [][NextLocator]_vars

(***************************************************************************)
(* Target Victim Locator, phase 1 and main() (target_victim_locator.py).   *)
(*                                                                         *)
(* main() calls find_candidate_set, exits when it returns -1, prints the   *)
(* instance of a one-instance candidate set, and otherwise calls           *)
(* binary_search_localization on the candidate set's instances.            *)
(***************************************************************************)

\* most architecture sets in cpu_sets
MaxSets == 3

\* most instances in one architecture set
MaxSetSize == 3

\* the attacker URLs, row k for the set at position k of cpu_sets
SetInstanceNames ==
    << <<"a1", "a2", "a3", "a4", "a5">>,
       <<"b1", "b2", "b3", "b4", "b5">>,
       <<"c1", "c2", "c3", "c4", "c5">>,
       <<"d1", "d2", "d3", "d4", "d5">>,
       <<"e1", "e2", "e3", "e4", "e5">> >>

\* load_cpu_sets: up to MaxSets sets of 0..MaxSetSize instances each; a set
\* without the "instances" key reads as [] at line 270
CpuSetsInputs ==
    UNION {{[k \in 1..n |->
                [instances |-> SubSeq(SetInstanceNames[k], 1, size[k])]] :
              size \in [1..n -> 0..MaxSetSize]} : n \in 0..MaxSets}

\* what no step of find_candidate_set or main() writes, a call of
\* binary_search_localization apart
MainFixed ==
    <<FanOutVars, ProbeVars,
      oracle, server, remaining, groups, coresident, candidates, step, left,
      right, result, cpu_sets, CoverageVars, SharingVars, MeasureVars,
      PrepareVars>>

\* the same, for the steps that treat measure_latency_with_lock as one step
MainConfig == <<LockVars, MainFixed>>

InitMainCommon ==
    /\ program = "target_victim_locator"
    /\ pc = "start"
    /\ server = NoServers
    /\ remaining = {}
    /\ groups = <<>>
    /\ cpu_sets \in CpuSetsInputs
    /\ idx = 0
    /\ tested = <<>>
    /\ candidate_idx = Unassigned
    /\ reported = ""
    /\ CoverageIdle
    /\ SharingIdle
    /\ LocatorIdle
    /\ MeasureIdle
    /\ PrepareIdle
    /\ FanOutIdle
    /\ LockIdle
    /\ ProbeIdle

InitMain ==
    /\ oracle = "any"
    /\ InitMainCommon

\* main() lines 376-385 and line 269: find_candidate_set is called and
\* enumerate starts at index 0
MainEnter ==
    /\ program = "target_victim_locator"
    /\ pc = "start"
    /\ idx' = 0
    /\ pc' = "scan"
    /\ UNCHANGED <<program, instances, probed_median, tested, candidate_idx,
                   reported, MainConfig>>

\* lines 269-276: an empty set is skipped
ScanSkip ==
    /\ program = "target_victim_locator"
    /\ pc = "scan"
    /\ idx < Len(cpu_sets)
    /\ cpu_sets[idx + 1].instances = <<>>
    /\ idx' = idx + 1
    /\ UNCHANGED <<program, pc, instances, probed_median, tested,
                   candidate_idx, reported, MainConfig>>

\* lines 269-291: /lock on every instance of the set, then the victim is
\* measured
ScanMeasure ==
    /\ program = "target_victim_locator"
    /\ pc = "scan"
    /\ idx < Len(cpu_sets)
    /\ cpu_sets[idx + 1].instances # <<>>
    /\ probed_median' \in MeasureLatencyWithLock(cpu_sets[idx + 1].instances)
    /\ tested' = Append(tested, [idx |-> idx, median |-> probed_median'])
    /\ pc' = "scanned"
    /\ UNCHANGED <<program, instances, idx, candidate_idx, reported,
                   MainConfig>>

\* lines 298-300 without the test: the scan goes on after any measurement
ScanNextAlways ==
    /\ program = "target_victim_locator"
    /\ pc = "scanned"
    /\ idx' = idx + 1
    /\ pc' = "scan"
    /\ UNCHANGED <<program, instances, probed_median, tested, candidate_idx,
                   reported, MainConfig>>

\* line 298 false: the next set
ScanNext ==
    /\ program = "target_victim_locator"
    /\ pc = "scanned"
    /\ ~IsAboveThreshold(probed_median, LatencyThreshold)
    /\ idx' = idx + 1
    /\ pc' = "scan"
    /\ UNCHANGED <<program, instances, probed_median, tested, candidate_idx,
                   reported, MainConfig>>

\* lines 298-300: return idx
ScanReturnIdx ==
    /\ program = "target_victim_locator"
    /\ pc = "scanned"
    /\ IsAboveThreshold(probed_median, LatencyThreshold)
    /\ candidate_idx' = idx
    /\ pc' = "returned"
    /\ UNCHANGED <<program, instances, probed_median, idx, tested, reported,
                   MainConfig>>

\* lines 302-303 returning the first set instead of -1
ScanReturnGuess ==
    /\ program = "target_victim_locator"
    /\ pc = "scan"
    /\ idx = Len(cpu_sets)
    /\ candidate_idx' = IF cpu_sets = <<>> THEN -1 ELSE 0
    /\ pc' = "returned"
    /\ UNCHANGED <<program, instances, probed_median, idx, tested, reported,
                   MainConfig>>

\* lines 302-303: every set was skipped or measured below the threshold,
\* return -1
ScanReturnNone ==
    /\ program = "target_victim_locator"
    /\ pc = "scan"
    /\ idx = Len(cpu_sets)
    /\ candidate_idx' = -1
    /\ pc' = "returned"
    /\ UNCHANGED <<program, instances, probed_median, idx, tested, reported,
                   MainConfig>>

\* main() lines 387-388: sys.exit(0), no candidate found
MainExitNoCandidate ==
    /\ program = "target_victim_locator"
    /\ pc = "returned"
    /\ candidate_idx < 0
    /\ pc' = "exit"
    /\ UNCHANGED <<program, instances, probed_median, idx, tested,
                   candidate_idx, reported, MainConfig>>

\* main() lines 390-398: the candidate set has one instance, it is printed
\* as the co-resident attacker
MainSingleInstance ==
    /\ program = "target_victim_locator"
    /\ pc = "returned"
    /\ candidate_idx >= 0
    /\ LET candidate_instances == cpu_sets[candidate_idx + 1].instances
       IN  /\ Len(candidate_instances) = 1
           /\ reported' = candidate_instances[1]
    /\ pc' = "exit"
    /\ UNCHANGED <<program, instances, probed_median, idx, tested,
                   candidate_idx, MainConfig>>

\* main() lines 390-410: binary_search_localization is called on the
\* instances of the candidate set
MainBisect ==
    /\ program = "target_victim_locator"
    /\ pc = "returned"
    /\ candidate_idx >= 0
    /\ LET candidate_instances == cpu_sets[candidate_idx + 1].instances
       IN  /\ Len(candidate_instances) # 1
           /\ instances' = candidate_instances
    /\ program' = "binary_search_localization"
    /\ pc' = "start"
    /\ UNCHANGED <<probed_median, idx, tested, candidate_idx, reported,
                   MainConfig>>

\* main(), with the steps of the binary_search_localization it calls (the
\* candidate set is never empty, line 359 cannot raise)
NextMain ==
    \/ MainEnter
    \/ ScanSkip
    \/ ScanMeasure
    \/ ScanNext
    \/ ScanReturnIdx
    \/ ScanReturnNone
    \/ MainExitNoCandidate
    \/ MainSingleInstance
    \/ MainBisect
    \/ LocatorEnter
    \/ BisectMeasure
    \/ BisectKeepLeft
    \/ BisectKeepRight
    \/ BisectReturn

SpecMain == InitMain /\ [][NextMain]_vars

\* the localizer, or binary_search_localization alone, with a victim that
\* answers in any way or is down for the whole run
InitOutage ==
    /\ oracle \in {"any", "outage"}
    /\ \/ InitMainCommon
       \/ InitLocatorCommon /\ coresident = ""

NextOutage ==
    \/ NextMain
    \/ BisectIndexError

SpecOutage == InitOutage /\ [][NextOutage]_vars

(***************************************************************************)
(* measure_victim_latency (target_victim_locator.py).                      *)
(*                                                                         *)
(* The victim's latencies are multiples of 100 ms, so the mean of two of   *)
(* them that statistics.median takes for an even count is exact.           *)
(***************************************************************************)

\* what no step of measure_victim_latency writes
MeasureConfig ==
    <<FanOutVars, ProbeVars, LockVars,
      program, oracle, server, remaining, groups, runs, CoverageVars,
      SharingVars, LocatorVars, MainVars, PrepareVars>>

InitMeasure ==
    /\ program = "measure_victim_latency"
    /\ pc = "loop"
    /\ oracle = "any"
    /\ server = NoServers
    /\ remaining = {}
    /\ groups = <<>>
    /\ runs \in 0..MaxRuns
    /\ victim_responses = <<>>
    /\ latencies = <<>>
    /\ median_latency = 0
    /\ CoverageIdle
    /\ SharingIdle
    /\ LocatorIdle
    /\ MainIdle
    /\ PrepareIdle
    /\ FanOutIdle
    /\ LockIdle
    /\ ProbeIdle

\* lines 124-134: one request; a failed one appends float("inf")
MeasureRequest ==
    /\ program = "measure_victim_latency"
    /\ pc = "loop"
    /\ Len(latencies) < runs
    /\ \E r \in VictimResponses :
         /\ victim_responses' = Append(victim_responses, r)
         /\ latencies' = Append(latencies, IF r.ok THEN r.elapsed ELSE Inf)
    /\ UNCHANGED <<pc, median_latency, MeasureConfig>>

\* lines 136-141: inf when no latency is finite, else the median of the
\* finite ones
MeasureReturn ==
    /\ program = "measure_victim_latency"
    /\ pc = "loop"
    /\ Len(latencies) = runs
    /\ LET finite_latencies == FiniteLatencies(latencies)
       IN  median_latency' =
             IF finite_latencies = <<>> THEN Inf
             ELSE Median(finite_latencies)
    /\ pc' = "done"
    /\ UNCHANGED <<victim_responses, latencies, MeasureConfig>>

NextMeasure ==
    \/ MeasureRequest
    \/ MeasureReturn

SpecMeasure == InitMeasure /\ [][NextMeasure]_vars

(***************************************************************************)
(* Architecture-Set Reducer (prepare_attacker_sets.py).                    *)
(*                                                                         *)
(* Every entry of the URL list gets its own /info request; the requests    *)
(* run concurrently and as_completed yields them in the order they finish. *)
(* Frequencies are in MHz.  groups is the list load_server_groups reads:   *)
(* the groups written by the Server Coverage Identifier, pairwise          *)
(* disjoint.                                                               *)
(***************************************************************************)

\* most entries in the URL list
MaxUrls == 3

\* most server groups in the server-groups file
MaxGroups == 2

\* the attacker URLs; sorted() orders them as listed here
PrepareUrlNames == <<"u1", "u2", "u3", "u4", "u5">>

PrepareUrls == {PrepareUrlNames[k] : k \in 1..MaxUrls}

\* load_urls: the first n URLs, two URLs out of sorted order, or a URL
\* listed twice
UrlListInputs ==
    {SubSeq(PrepareUrlNames, 1, n) : n \in 0..MaxUrls}
      \cup {<<PrepareUrlNames[2], PrepareUrlNames[1]>>,
            <<PrepareUrlNames[1], PrepareUrlNames[1]>>}

\* data.get("cpu_brand") is None: the key is missing or null
NoBrand == "<None>"

\* no cpu_brand, no parsed_freq
NoInfo == [cpu_brand |-> NoBrand, parsed_freq |-> None]

\* what one /info request ends in: "error" raises RequestException (no
\* answer, or an HTTP error status), "nonjson" makes resp.json() raise
\* ValueError, "nonobject" is a JSON body that is no object (data has no
\* .get), "object" is a JSON object with the two fields, each possibly null
InfoResponses ==
    {[kind |-> k, data |-> NoInfo] : k \in {"error", "nonjson", "nonobject"}}
      \cup {[kind |-> "object", data |-> data] :
              data \in [cpu_brand : {NoBrand, "amd", "intel"},
                        parsed_freq : {None, 2000}]}

\* the responses of a fleet of one architecture: the CPU is reported, the
\* request fails, or the body is no object
FleetResponses ==
    {r \in InfoResponses :
        \/ r.kind \in {"error", "nonobject"}
        \/ r.kind = "object" /\ r.data.cpu_brand = "amd"
                             /\ r.data.parsed_freq = 2000}

\* the server groups over the URLs: co-residency classes of some of them,
\* as [lock_url, members] records
ServerGroupsInputs ==
    {LET members(j) == {u \in PrepareUrls : owner[u] = j}
         all == [j \in 1..MaxGroups |->
                    [lock_url |-> IF members(j) = {} THEN ""
                                  ELSE CHOOSE u \in members(j) : TRUE,
                     members |-> members(j)]]
     IN  SelectSeq(all, LAMBDA g : g.members # {}) :
       owner \in [PrepareUrls -> 0..MaxGroups]}

\* fetch_cpu_info for a response that lets it return: (None, None) on
\* RequestException, ValueError or a missing cpu_brand
FetchCpuInfo(response) ==
    IF response.kind \in {"error", "nonjson"} THEN NoInfo
    ELSE IF response.data.cpu_brand = NoBrand THEN NoInfo
    ELSE response.data

\* lines 163-168 with the frequency left out of the key
ArchKeyBrandOnly(fetched) ==
    IF fetched.cpu_brand = NoBrand
      THEN [cpu_brand |-> "unknown", parsed_freq |-> None]
      ELSE [cpu_brand |-> fetched.cpu_brand, parsed_freq |-> None]

\* lines 163-168: arch_key
ArchKey(fetched) ==
    IF fetched.cpu_brand = NoBrand
      THEN [cpu_brand |-> "unknown", parsed_freq |-> None]
      ELSE [cpu_brand |-> fetched.cpu_brand,
            parsed_freq |-> fetched.parsed_freq]

\* line 170: arch_to_urls.setdefault(arch_key, []).append(url), a new key
\* goes last
SetDefaultAppend(dict, arch_key, url) ==
    IF \E s \in 1..Len(dict) : dict[s].key = arch_key
      THEN [s \in 1..Len(dict) |->
              IF dict[s].key = arch_key
                THEN [dict[s] EXCEPT !.urls = Append(@, url)]
                ELSE dict[s]]
      ELSE Append(dict, [key |-> arch_key, urls |-> <<url>>])

\* build_url_to_group_id: URL -> index of its group, from 0; the last
\* group listing a URL wins
BuildUrlToGroupId(server_groups) ==
    [u \in UNION {server_groups[j].members : j \in 1..Len(server_groups)} |->
        CHOOSE gid \in 0..Len(server_groups) - 1 :
            /\ u \in server_groups[gid + 1].members
            /\ \A j \in 1..Len(server_groups) :
                  u \in server_groups[j].members => j <= gid + 1]

\* lines 255-259 with one gid for every URL outside the groups
GidSharedSingle(url, url_to_group) ==
    IF url \in DOMAIN url_to_group
      THEN [kind |-> "group", id |-> url_to_group[url], url |-> ""]
      ELSE [kind |-> "single", id |-> None, url |-> ""]

\* lines 255-259: "group-<id>" or "single-<url>"
Gid(url, url_to_group) ==
    IF url \in DOMAIN url_to_group
      THEN [kind |-> "group", id |-> url_to_group[url], url |-> ""]
      ELSE [kind |-> "single", id |-> None, url |-> url]

RECURSIVE KeepFirst(_, _, _)

\* lines 254-264 keeping every URL
KeepAll(urls, url_to_group, seen) == urls

\* lines 254-264: list(group_to_rep.values()), the first URL of urls for
\* each gid, in the order the gids are first met; seen holds the keys of
\* group_to_rep
KeepFirst(urls, url_to_group, seen) ==
    IF urls = <<>> THEN <<>>
    ELSE LET gid == Gid(Head(urls), url_to_group)
         IN  IF gid \in seen
               THEN KeepFirst(Tail(urls), url_to_group, seen)
               ELSE <<Head(urls)>>
                      \o KeepFirst(Tail(urls), url_to_group,
                                   seen \cup {gid})

\* the place of a URL in the order of sorted()
SortIndex(url) ==
    CHOOSE k \in 1..Len(PrepareUrlNames) : PrepareUrlNames[k] = url

\* line 275: sorted(reps)
Sorted(reps) ==
    SortSeq(reps, LAMBDA x, y : SortIndex(x) < SortIndex(y))

\* deduplicate_by_server_within_arch_sets: one cpu_set per architecture, in
\* the order of the keys of arch_to_urls
DeduplicateByServerWithinArchSets(dict, url_to_group) ==
    [s \in 1..Len(dict) |->
        [cpu_brand |-> dict[s].key.cpu_brand,
         parsed_freq |-> dict[s].key.parsed_freq,
         instances |-> Sorted(KeepFirst(dict[s].urls, url_to_group, {}))]]

\* what no step of prepare_attacker_sets.py writes
PrepareConfig ==
    <<FanOutVars, ProbeVars, LockVars,
      program, oracle, server, remaining, groups, url_list, info_responses,
      idx, tested, candidate_idx, reported, CoverageVars, SharingVars,
      LocatorVars, MeasureVars>>

InitPrepareCommon ==
    /\ program = "prepare_attacker_sets"
    /\ pc = "start"
    /\ oracle = "any"
    /\ server = NoServers
    /\ remaining = {}
    /\ url_list \in UrlListInputs
    /\ pending_futures = {}
    /\ arch_to_urls = <<>>
    /\ CoverageIdle
    /\ SharingIdle
    /\ LocatorIdle
    /\ MainIdle
    /\ MeasureIdle
    /\ FanOutIdle
    /\ LockIdle
    /\ ProbeIdle

\* any /info responses, no server groups known
InitGrouping ==
    /\ InitPrepareCommon
    /\ info_responses \in [1..Len(url_list) -> InfoResponses]
    /\ groups = <<>>

\* a fleet of one architecture, any server groups
InitDedup ==
    /\ InitPrepareCommon
    /\ info_responses \in [1..Len(url_list) -> FleetResponses]
    /\ groups \in ServerGroupsInputs

\* main() lines 290-293: no URL loaded, sys.exit(1)
PrepareExitNoUrls ==
    /\ program = "prepare_attacker_sets"
    /\ pc = "start"
    /\ url_list = <<>>
    /\ pc' = "exit"
    /\ UNCHANGED <<pending_futures, arch_to_urls, cpu_sets, PrepareConfig>>

\* main() lines 290-302, lines 152-159: one /info request per entry is
\* submitted
PrepareEnter ==
    /\ program = "prepare_attacker_sets"
    /\ pc = "start"
    /\ url_list # <<>>
    /\ pending_futures' = 1..Len(url_list)
    /\ arch_to_urls' = <<>>
    /\ pc' = "grouping"
    /\ UNCHANGED <<cpu_sets, PrepareConfig>>

\* lines 160-170: as_completed yields a finished request, any of those
\* pending, and its URL is filed under its architecture key
GroupCompleted ==
    /\ program = "prepare_attacker_sets"
    /\ pc = "grouping"
    /\ \E k \in pending_futures :
         /\ info_responses[k].kind # "nonobject"
         /\ arch_to_urls' =
              SetDefaultAppend(arch_to_urls,
                               ArchKey(FetchCpuInfo(info_responses[k])),
                               url_list[k])
         /\ pending_futures' = pending_futures \ {k}
    /\ UNCHANGED <<pc, cpu_sets, PrepareConfig>>

\* lines 126, 161: data.get on a body that is no object raises
\* AttributeError in the worker; future.result() raises it again and
\* group_by_architecture ends without returning
GroupRaises ==
    /\ program = "prepare_attacker_sets"
    /\ pc = "grouping"
    /\ \E k \in pending_futures : info_responses[k].kind = "nonobject"
    /\ pc' = "AttributeError"
    /\ UNCHANGED <<pending_futures, arch_to_urls, cpu_sets, PrepareConfig>>

\* lines 179, main() lines 304-320: every request was collected; the groups
\* are mapped and each architecture set is reduced and written
PrepareDeduplicate ==
    /\ program = "prepare_attacker_sets"
    /\ pc = "grouping"
    /\ pending_futures = {}
    /\ cpu_sets' = DeduplicateByServerWithinArchSets(
                       arch_to_urls, BuildUrlToGroupId(groups))
    /\ pc' = "done"
    /\ UNCHANGED <<pending_futures, arch_to_urls, PrepareConfig>>

NextPrepare ==
    \/ PrepareExitNoUrls
    \/ PrepareEnter
    \/ GroupCompleted
    \/ GroupRaises
    \/ PrepareDeduplicate

SpecGrouping == InitGrouping /\ [][NextPrepare]_vars

SpecDedup == InitDedup /\ [][NextPrepare]_vars

(***************************************************************************)
(* One /check probe and its parsers (scaled-out-instances-group.py,        *)
(* iteration_test.py).                                                     *)
(*                                                                         *)
(* A response body is a sequence of lines and a line is a sequence of the  *)
(* pieces of text the patterns read: an occurrence                         *)
(* "count[<index>] is <value>" is the record of its index and value, and   *)
(* text that no pattern matches is the record Noise.                       *)
(***************************************************************************)

\* most lines in a /check response body
MaxBodyLines == 2

Noise == [index |-> None, value |-> None]

\* "count[0] is 0", "count[0] is 500", "count[1] is 300", other text
Pieces ==
    {[index |-> 0, value |-> 0], [index |-> 0, value |-> 500],
     [index |-> 1, value |-> 300], Noise}

\* a line holds at most two pieces
BodyLines ==
    {<<>>} \cup {<<a>> : a \in Pieces} \cup {<<a, b>> : a, b \in Pieces}

Bodies == UNION {[1..n -> BodyLines] : n \in 0..MaxBodyLines}

\* a /check request: a RequestException, or a 2xx status and a body
CheckResponses ==
    {[ok |-> FALSE, text |-> <<>>]} \cup {[ok |-> TRUE, text |-> b] : b \in Bodies}

\* a /instance_id request: a RequestException (network failure, HTTP error
\* status), a body that is not JSON, JSON that is not an object, or an
\* object; NoKey is the object without the key instance_id
NoKey == "<missing>"

IdResponses ==
    [kind : {"error", "nonjson", "nonobject"}, instance_id : {NoKey}]
      \cup [kind : {"object"}, instance_id : IDS \cup {NoKey}]

NoCheckResponse == [ok |-> FALSE, text |-> <<>>]

NoIdResponse == [kind |-> "error", instance_id |-> NoKey]

NoWorkerResult == [instance_id |-> "", sum_count |-> None]

\* the pieces of the whole text, in reading order
RECURSIVE Joined(_)
Joined(text) ==
    IF text = <<>> THEN <<>> ELSE Head(text) \o Joined(Tail(text))

\* iteration_test.py:77-86: re.search(r"count\[0\]\s+is\s+(\d+)", text),
\* the first match in the text, None without a match
ExtractCount(text) ==
    LET matches == SelectSeq(Joined(text), LAMBDA piece : piece.index = 0)
    IN  IF matches = <<>> THEN None ELSE matches[1].value

\* iteration_test.py:61-74: the text, "" after a RequestException
ExecuteEndpoint(response) == IF response.ok THEN response.text ELSE <<>>

\* scaled-out-instances-group.py:120-123: re.search per line of
\* text.splitlines(), the first match of the line is appended to counts
RECURSIVE Counts(_)
Counts(text) ==
    IF text = <<>>
      THEN <<>>
      ELSE LET m == SelectSeq(Head(text), LAMBDA piece : piece.index # None)
           IN  (IF m = <<>> THEN <<>> ELSE <<m[1].value>>) \o Counts(Tail(text))

RECURSIVE Sum(_)
Sum(counts) == IF counts = <<>> THEN 0 ELSE Head(counts) + Sum(Tail(counts))

\* SumCount with sum([]) for a body without a match
SumCountOfNothingIsZero(text) == Sum(Counts(text))

\* scaled-out-instances-group.py:125-129: float("inf") if not counts
SumCount(text) == IF Counts(text) = <<>> THEN Inf ELSE Sum(Counts(text))

\* scaled-out-instances-group.py:68-79: what call_instance_id can do with a
\* response.  Only requests.RequestException is caught: resp.json() of a
\* body that is not JSON raises a subclass of it in requests >= 2.27 and a
\* plain ValueError before, and data.get of JSON that is not an object
\* raises AttributeError.
CallInstanceId(response) ==
    CASE response.kind = "error" -> {[raises |-> "", returns |-> "unknown"]}
      [] response.kind = "nonjson" ->
           {[raises |-> "", returns |-> "unknown"],
            [raises |-> "ValueError", returns |-> ""]}
      [] response.kind = "nonobject" ->
           {[raises |-> "AttributeError", returns |-> ""]}
      [] response.kind = "object" ->
           {[raises |-> "",
             returns |-> IF response.instance_id = NoKey
                           THEN "unknown" ELSE response.instance_id]}

ProbeConfig ==
    <<program, oracle, server, remaining, groups, check_response,
      CoverageVars, SharingVars, LocatorVars, MainVars, MeasureVars,
      PrepareVars, FanOutVars, LockVars>>

InitProbeCommon ==
    /\ pc = "start"
    /\ oracle = "any"
    /\ server = NoServers
    /\ remaining = {}
    /\ groups = <<>>
    /\ check_response \in CheckResponses
    /\ parsed_sum = None
    /\ extracted = None
    /\ id_response = NoIdResponse
    /\ worker_result = NoWorkerResult
    /\ CoverageIdle
    /\ SharingIdle
    /\ LocatorIdle
    /\ MainIdle
    /\ MeasureIdle
    /\ PrepareIdle
    /\ FanOutIdle
    /\ LockIdle

\* one task of the fan-out of identify_server_sharing
InitProbe ==
    /\ program = "call_check_and_get_metric_and_id"
    /\ InitProbeCommon

\* one /check of run_iteration_for_lock and extract_count of its text
InitExtract ==
    /\ program = "extract_count"
    /\ InitProbeCommon

\* lines 110-116: the /check request failed, no identity probe
ProbeCheckFailed ==
    /\ program = "call_check_and_get_metric_and_id"
    /\ pc = "start"
    /\ ~check_response.ok
    /\ worker_result' = [instance_id |-> "unknown", sum_count |-> Inf]
    /\ pc' = "done"
    /\ UNCHANGED <<parsed_sum, extracted, id_response, ProbeConfig>>

\* lines 118-129: the counts of the body and their sum
ProbeParse ==
    /\ program = "call_check_and_get_metric_and_id"
    /\ pc = "start"
    /\ check_response.ok
    /\ parsed_sum' = SumCount(check_response.text)
    /\ pc' = "identify"
    /\ UNCHANGED <<extracted, id_response, worker_result, ProbeConfig>>

\* lines 131-137: inst_id = call_instance_id() and the returned dict, or
\* the exception call_instance_id lets through
ProbeIdentify ==
    /\ program = "call_check_and_get_metric_and_id"
    /\ pc = "identify"
    /\ \E response \in IdResponses :
         /\ id_response' = response
         /\ \E outcome \in CallInstanceId(response) :
              IF outcome.raises = ""
                THEN /\ worker_result' = [instance_id |-> outcome.returns,
                                          sum_count |-> parsed_sum]
                     /\ pc' = "done"
                ELSE /\ pc' = outcome.raises
                     /\ UNCHANGED worker_result
    /\ UNCHANGED <<parsed_sum, extracted, ProbeConfig>>

\* iteration_test.py:126: extract_count(future.result()) of one /check
ExtractCountOfResponse ==
    /\ program = "extract_count"
    /\ pc = "start"
    /\ extracted' = ExtractCount(ExecuteEndpoint(check_response))
    /\ pc' = "done"
    /\ UNCHANGED <<parsed_sum, id_response, worker_result, ProbeConfig>>

NextProbe ==
    \/ ProbeCheckFailed
    \/ ProbeParse
    \/ ProbeIdentify
    \/ ExtractCountOfResponse

SpecProbe == (InitProbe \/ InitExtract) /\ [][NextProbe]_vars

(***************************************************************************)
(* The thread pools of the two partitioners, task by task                  *)
(* (iteration_test.py:89-130, scaled-out-instances-group.py:181-189).      *)
(*                                                                         *)
(* The partitioners above take a fan-out as one step.  Here the same loops *)
(* run with every step of run_iteration_for_lock and of the pool of        *)
(* identify_server_sharing on its own: the /lock request, the settle       *)
(* delay, the submission of the tasks, each task's completion in a worker  *)
(* thread, each turn of the as_completed loop in the calling thread.       *)
(* futures maps a task (its URL, or its number) to its state: "running"    *)
(* in a worker, "done" with its result, "collected" by the caller.         *)
(***************************************************************************)

\* most instance URLs when the thread pool is followed task by task
MaxPoolUrls == 3

PoolInputs == {SubSeq(UrlNames, 1, n) : n \in 0..MaxPoolUrls}

\* what a /check request of the pool can come to: a RequestException, a
\* body without count[0], count[0] below, at and above the threshold
PoolResponses ==
    {NoCheckResponse,
     [ok |-> TRUE, text |-> <<<<[index |-> 1, value |-> 300]>>>>],
     [ok |-> TRUE, text |-> <<<<[index |-> 0, value |-> 500]>>>>],
     [ok |-> TRUE, text |-> <<<<[index |-> 0, value |-> ThresholdValue]>>>>],
     [ok |-> TRUE, text |-> <<<<[index |-> 0, value |-> 1500]>>>>]}

\* what a task of identify_server_sharing can return: a sum below or at the
\* threshold, or inf for a body without counts, with the ID or "unknown"
\* that call_instance_id gives; ("unknown", inf) is also what a failed
\* /check gives
PoolAnswers ==
    [instance_id : InstanceIdAnswers, sum_count : {200, ThresholdValue, Inf}]

InitPool ==
    /\ program = "identify_server_coverage"
    /\ pc = "start"
    /\ oracle = "any"
    /\ server = NoServers
    /\ MEMCHECK_THRESHOLD = ThresholdValue
    /\ instance_urls \in PoolInputs
    /\ remaining = {}
    /\ groups = <<>>
    /\ lock_url = ""
    /\ check_urls = {}
    /\ check_results_round1 = <<>>
    /\ candidate_urls = {}
    /\ check_results_round2 = <<>>
    /\ verified_members = {}
    /\ SharingIdle
    /\ LocatorIdle
    /\ MainIdle
    /\ MeasureIdle
    /\ PrepareIdle
    /\ FanOutIdle
    /\ LockIdle
    /\ ProbeIdle

\* the argument check_urls of the call: line 178 passes check_urls, line 201
\* candidate_urls
ProbeUrls == IF pc = "round1" THEN check_urls ELSE candidate_urls

InCall ==
    /\ program = "identify_server_coverage"
    /\ pc \in {"round1", "round2"}

\* lines 178, 201 and 100-103: the call, and the /lock request is sent
IterCall ==
    /\ InCall
    /\ ipc = "idle"
    /\ ipc' = "lock"
    /\ lock_response' = [url |-> lock_url, state |-> "pending"]
    /\ UNCHANGED <<pc, remaining, groups, CoverageLocals, futures,
                   iteration_results, CoverageFixed>>

\* line 103 and execute_endpoint: the text, or "" after a RequestException;
\* either is dropped
IterLockDone ==
    /\ InCall
    /\ ipc = "lock"
    /\ \E outcome \in {"returned", "failed"} :
         lock_response' = [lock_response EXCEPT !.state = outcome]
    /\ ipc' = "sleep"
    /\ UNCHANGED <<pc, remaining, groups, CoverageLocals, futures,
                   iteration_results, CoverageFixed>>

\* lines 105-108: time.sleep(0.1) is over, results = {}
IterSleep ==
    /\ InCall
    /\ ipc = "sleep"
    /\ ipc' = "submit"
    /\ iteration_results' = <<>>
    /\ UNCHANGED <<pc, remaining, groups, CoverageLocals, lock_response,
                   futures, CoverageFixed>>

\* IterSubmit without waiting for the /lock request and the delay
IterSubmitAtOnce ==
    /\ InCall
    /\ ipc \in {"lock", "sleep", "submit"}
    /\ ProbeUrls # {}
    /\ futures' = [url \in ProbeUrls |->
                      [state |-> "running", response |-> NoCheckResponse]]
    /\ ipc' = "collect"
    /\ UNCHANGED <<pc, remaining, groups, CoverageLocals, lock_response,
                   iteration_results, CoverageFixed>>

\* lines 110-121: one task per URL of check_urls is submitted.  Both callers
\* pass a list that is not empty (lines 170 and 187), so the return of line
\* 111 is never taken.
IterSubmit ==
    /\ InCall
    /\ ipc = "submit"
    /\ ProbeUrls # {}
    /\ futures' = [url \in ProbeUrls |->
                      [state |-> "running", response |-> NoCheckResponse]]
    /\ ipc' = "collect"
    /\ UNCHANGED <<pc, remaining, groups, CoverageLocals, lock_response,
                   iteration_results, CoverageFixed>>

\* a worker thread: execute_endpoint(url, "/check") returns
IterWorkerDone(url) ==
    /\ InCall
    /\ ipc = "collect"
    /\ url \in DOMAIN futures
    /\ futures[url].state = "running"
    /\ \E response \in PoolResponses :
         futures' = [futures EXCEPT
                        ![url] = [state |-> "done", response |-> response]]
    /\ UNCHANGED <<pc, ipc, remaining, groups, CoverageLocals, lock_response,
                   iteration_results, CoverageFixed>>

\* results[url] = count_value
Put(results, url, count_value) ==
    [u \in DOMAIN results \cup {url} |->
        IF u = url THEN count_value ELSE results[u]]

\* lines 123-128: as_completed yields a finished task and the calling
\* thread stores extract_count of its text
IterCollect(url) ==
    /\ InCall
    /\ ipc = "collect"
    /\ url \in DOMAIN futures
    /\ futures[url].state = "done"
    /\ iteration_results' =
           Put(iteration_results, url,
               ExtractCount(ExecuteEndpoint(futures[url].response)))
    /\ futures' = [futures EXCEPT
                      ![url] = [state |-> "collected",
                                response |-> NoCheckResponse]]
    /\ UNCHANGED <<pc, ipc, remaining, groups, CoverageLocals, lock_response,
                   CoverageFixed>>

\* the as_completed loop ends with the first task it yields
PoolJoinedByFirst == \E task \in DOMAIN futures : futures[task].state = "collected"

\* lines 123, 117: as_completed has yielded every task and the with block
\* of the executor is left
PoolJoined == \A task \in DOMAIN futures : futures[task].state = "collected"

\* line 130, and the end of the call
IterReturns ==
    /\ InCall
    /\ ipc = "collect"
    /\ PoolJoined
    /\ ipc' = "idle"
    /\ lock_response' = [url |-> "", state |-> ""]
    /\ futures' = <<>>
    /\ iteration_results' = <<>>

\* IterReturn1Alone with the lock instance left in remaining
IterReturn1AloneKeepsLock ==
    /\ IterReturns
    /\ pc = "round1"
    /\ CandidateUrls(iteration_results) = {}
    /\ check_results_round1' = iteration_results
    /\ candidate_urls' = {}
    /\ pc' = "loop"
    /\ UNCHANGED <<remaining, groups, lock_url, check_urls,
                   check_results_round2, verified_members, CoverageFixed>>

\* lines 178-193: Round 1 returns without a candidate
IterReturn1Alone ==
    /\ IterReturns
    /\ pc = "round1"
    /\ CandidateUrls(iteration_results) = {}
    /\ check_results_round1' = iteration_results
    /\ candidate_urls' = {}
    /\ groups' = Append(groups, [lock_url |-> lock_url, members |-> {lock_url}])
    /\ remaining' = remaining \ {lock_url}
    /\ pc' = "loop"
    /\ UNCHANGED <<lock_url, check_urls, check_results_round2,
                   verified_members, CoverageFixed>>

\* lines 178-197: Round 1 returns with candidates
IterReturn1 ==
    /\ IterReturns
    /\ pc = "round1"
    /\ CandidateUrls(iteration_results) # {}
    /\ check_results_round1' = iteration_results
    /\ candidate_urls' = CandidateUrls(iteration_results)
    /\ pc' = "round2"
    /\ UNCHANGED <<remaining, groups, lock_url, check_urls,
                   check_results_round2, verified_members, CoverageFixed>>

\* lines 199-225: Round 2 returns and the group is committed
IterReturn2 ==
    /\ IterReturns
    /\ pc = "round2"
    /\ LET verified == VerifiedMembers(candidate_urls, iteration_results)
           group_members == GroupMembers(lock_url, verified)
       IN  /\ check_results_round2' = iteration_results
           /\ verified_members' = verified
           /\ groups' = Append(groups, [lock_url |-> lock_url,
                                        members |-> group_members])
           /\ remaining' = remaining \ group_members
    /\ pc' = "loop"
    /\ UNCHANGED <<lock_url, check_urls, check_results_round1,
                   candidate_urls, CoverageFixed>>

NextPool ==
    \/ CoverageEnter
    \/ CoverageSelect
    \/ CoverageSelectLast
    \/ IterCall
    \/ IterLockDone
    \/ IterSleep
    \/ IterSubmit
    \/ \E url \in URLS : IterWorkerDone(url)
    \/ \E url \in URLS : IterCollect(url)
    \/ IterReturn1Alone
    \/ IterReturn1
    \/ IterReturn2
    \/ CoverageReturn

SpecPool == InitPool /\ [][NextPool]_vars

\* every request has a timeout (REQUEST_TIMEOUT) and every task ends, so
\* the calling thread and the workers always take their next step
FairSpecPool == SpecPool /\ WF_vars(NextPool)

InitSharingPool ==
    /\ program = "identify_server_sharing"
    /\ pc = "start"
    /\ oracle = "any"
    /\ server = NoServers
    /\ SERVER_SHARING_THRESHOLD = ThresholdValue
    /\ all_instance_ids \in SharingInputs
    /\ remaining = {}
    /\ groups = <<>>
    /\ lock_instance_id = ""
    /\ measurements = <<>>
    /\ aggregated = 0
    /\ inst_metric = <<>>
    /\ CoverageIdle
    /\ LocatorIdle
    /\ MainIdle
    /\ MeasureIdle
    /\ PrepareIdle
    /\ FanOutIdle
    /\ LockIdle
    /\ ProbeIdle

\* lines 181-186: NUM_CHECK_REQUESTS tasks are submitted
FanSubmit ==
    /\ program = "identify_server_sharing"
    /\ pc = "locked"
    /\ lock_instance_id # "unknown"
    /\ lock_instance_id \in remaining
    /\ futures' = [task \in 1..NUM_CHECK_REQUESTS |->
                      [state |-> "running", result |-> NoWorkerResult]]
    /\ pc' = "fanout"
    /\ UNCHANGED <<remaining, groups, lock_instance_id, measurements,
                   aggregated, inst_metric, ipc, lock_response,
                   iteration_results, SharingFixed>>

\* a worker thread: call_check_and_get_metric_and_id() returns
FanWorkerDone(task) ==
    /\ program = "identify_server_sharing"
    /\ pc = "fanout"
    /\ futures[task].state = "running"
    /\ \E answer \in PoolAnswers :
         futures' = [futures EXCEPT
                        ![task] = [state |-> "done", result |-> answer]]
    /\ UNCHANGED <<pc, remaining, groups, lock_instance_id, measurements,
                   aggregated, inst_metric, ipc, lock_response,
                   iteration_results, SharingFixed>>

\* lines 187-189: as_completed yields a finished task and the calling
\* thread appends its result
FanCollect(task) ==
    /\ program = "identify_server_sharing"
    /\ pc = "fanout"
    /\ futures[task].state = "done"
    /\ measurements' = Append(measurements, futures[task].result)
    /\ futures' = [futures EXCEPT
                      ![task] = [state |-> "collected",
                                 result |-> NoWorkerResult]]
    /\ UNCHANGED <<pc, remaining, groups, lock_instance_id, aggregated,
                   inst_metric, ipc, lock_response, iteration_results,
                   SharingFixed>>

\* FanJoin with the with block left while tasks are running
FanJoinLeavesTasks ==
    /\ program = "identify_server_sharing"
    /\ pc = "fanout"
    /\ measurements # <<>>
    /\ pc' = "aggregate"
    /\ UNCHANGED <<futures, remaining, groups, lock_instance_id,
                   measurements, aggregated, inst_metric, ipc, lock_response,
                   iteration_results, SharingFixed>>

\* lines 184, 187: as_completed has yielded every task and the with block
\* of the executor is left
FanJoin ==
    /\ program = "identify_server_sharing"
    /\ pc = "fanout"
    /\ PoolJoined
    /\ futures' = <<>>
    /\ pc' = "aggregate"
    /\ UNCHANGED <<remaining, groups, lock_instance_id, measurements,
                   aggregated, inst_metric, ipc, lock_response,
                   iteration_results, SharingFixed>>

NextSharingPool ==
    \/ SharingEnter
    \/ SharingCallLock
    \/ SharingRetryUnknown
    \/ SharingRetryGrouped
    \/ FanSubmit
    \/ \E task \in 1..NUM_CHECK_REQUESTS : FanWorkerDone(task)
    \/ \E task \in 1..NUM_CHECK_REQUESTS : FanCollect(task)
    \/ FanJoin
    \/ SharingAggregate
    \/ SharingCommit
    \/ SharingReturn

\* either partitioner, task by task
SpecPools ==
    (InitPool \/ InitSharingPool) /\ [][NextPool \/ NextSharingPool]_vars

(***************************************************************************)
(* measure_latency_with_lock, task by task                                 *)
(* (target_victim_locator.py, lines 144-210), called by the rounds of      *)
(* find_candidate_set.  Each /lock request is a task of the thread pool    *)
(* that trigger_lock_async creates; a task is tagged with the round (the   *)
(* index of the architecture set) that submitted it.                       *)
(***************************************************************************)

\* the largest number of architecture sets, and of instances of one set,
\* when every /lock request is a task of its own
MaxLockSets == 2
MaxLockSetSize == 2

\* the architecture set the current round of find_candidate_set tests
TestedSet == cpu_sets[idx + 1].instances

\* the positions of the /lock tasks that round r submitted
TasksOf(r) == {k \in 1..Len(lock_futures) : lock_futures[k].round = r}

\* the positions of the /lock requests that have not completed
PendingTasks == {k \in 1..Len(lock_futures) : lock_futures[k].state = "pending"}

InitLocks ==
    /\ InitMain
    /\ Len(cpu_sets) <= MaxLockSets
    /\ \A k \in 1..Len(cpu_sets) : Len(cpu_sets[k].instances) <= MaxLockSetSize

\* lines 283-291 and 186-191, 153-166: find_candidate_set calls
\* measure_latency_with_lock on a non-empty set, which calls
\* trigger_lock_async, which creates a new executor.  The requests of the
\* executors of earlier rounds that have not completed go on; the completed
\* ones are gone with their futures lists.
LockCall ==
    /\ program = "target_victim_locator"
    /\ pc = "scan"
    /\ mpc = "idle"
    /\ idx < Len(cpu_sets)
    /\ TestedSet # <<>>
    /\ lock_futures' = SelectSeq(lock_futures,
                                 LAMBDA task : task.state = "pending")
    /\ mpc' = "submit"
    /\ UNCHANGED <<program, pc, instances, idx, candidate_idx, reported,
                   probed_median, tested, MainFixed>>

\* line 168, one turn of the comprehension: the next URL of the set is
\* submitted, and its request starts at once (there are as many workers as
\* URLs, line 166)
LockSubmit ==
    /\ mpc = "submit"
    /\ Cardinality(TasksOf(idx)) < Len(TestedSet)
    /\ lock_futures' =
           Append(lock_futures,
                  [url |-> TestedSet[Cardinality(TasksOf(idx)) + 1],
                   round |-> idx, state |-> "pending"])
    /\ UNCHANGED <<program, pc, instances, idx, candidate_idx, reported,
                   probed_median, tested, mpc, MainFixed>>

\* lines 168-169 and 193: the comprehension is over, trigger_lock_async
\* returns and the warm-up sleep begins
LockSleep ==
    /\ mpc = "submit"
    /\ Cardinality(TasksOf(idx)) = Len(TestedSet)
    /\ mpc' = "warmup"
    /\ UNCHANGED <<program, pc, instances, idx, candidate_idx, reported,
                   probed_median, tested, lock_futures, MainFixed>>

\* lines 193-195: the sleep is over and measure_victim_latency is called;
\* no future is waited for
LockMeasureStart ==
    /\ mpc = "warmup"
    /\ mpc' = "measure"
    /\ UNCHANGED <<program, pc, instances, idx, candidate_idx, reported,
                   probed_median, tested, lock_futures, MainFixed>>

\* line 195: measure_victim_latency returns the median
LockMeasureEnd ==
    /\ mpc = "measure"
    /\ probed_median' \in MeasureLatencyWithLock(TestedSet)
    /\ mpc' = "shutdown"
    /\ UNCHANGED <<program, pc, instances, idx, candidate_idx, reported,
                   tested, lock_futures, MainFixed>>

\* lines 197-210 with executor.shutdown(wait=True)
LockShutdownWaits ==
    /\ mpc = "shutdown"
    /\ \A k \in TasksOf(idx) : lock_futures[k].state # "pending"
    /\ tested' = Append(tested, [idx |-> idx, median |-> probed_median])
    /\ mpc' = "idle"
    /\ pc' = "scanned"
    /\ UNCHANGED <<program, instances, idx, candidate_idx, reported,
                   probed_median, lock_futures, MainFixed>>

\* lines 197-210: executor.shutdown(wait=False) returns at once, the loop
\* over the futures logs the completed ones and skips the others, and the
\* median is returned to find_candidate_set (line 291)
LockShutdown ==
    /\ mpc = "shutdown"
    /\ tested' = Append(tested, [idx |-> idx, median |-> probed_median])
    /\ mpc' = "idle"
    /\ pc' = "scanned"
    /\ UNCHANGED <<program, instances, idx, candidate_idx, reported,
                   probed_median, lock_futures, MainFixed>>

\* lines 154-164, in a worker thread, at any moment after the submission:
\* the /lock request of a task returns a response, or raises
\* RequestException, which call_lock catches.  During the call that
\* submitted it the future keeps the outcome; after that call has returned
\* nothing refers to the future and the task is over.
LockWorkerDone(k) ==
    /\ k \in PendingTasks
    /\ IF mpc # "idle" /\ lock_futures[k].round = idx
         THEN \E outcome \in {"returned", "failed"} :
                  lock_futures' = [lock_futures EXCEPT ![k].state = outcome]
         ELSE lock_futures' =
                  [j \in 1..(Len(lock_futures) - 1) |->
                       IF j < k THEN lock_futures[j] ELSE lock_futures[j + 1]]
    /\ UNCHANGED <<program, pc, instances, idx, candidate_idx, reported,
                   probed_median, tested, mpc, MainFixed>>

NextLocks ==
    \/ MainEnter
    \/ ScanSkip
    \/ LockCall
    \/ LockSubmit
    \/ LockSleep
    \/ LockMeasureStart
    \/ LockMeasureEnd
    \/ LockShutdown
    \/ \E k \in 1..Len(lock_futures) : LockWorkerDone(k)
    \/ ScanNext
    \/ ScanReturnIdx
    \/ ScanReturnNone

SpecLocks == InitLocks /\ [][NextLocks]_vars

(***************************************************************************)
(* Claims about identify_server_coverage.                                  *)
(***************************************************************************)

MemberSets == {groups[i].members : i \in 1..Len(groups)}

PairwiseDisjoint ==
    \A i, j \in 1..Len(groups) :
        i # j => groups[i].members \cap groups[j].members = {}

\* C1: when identify_server_coverage returns with the threshold set, the
\* members of the returned groups are pairwise disjoint and their union is
\* set(instance_urls): every input instance is in exactly one group.
C1_PartitionCompleteness ==
    (program = "identify_server_coverage" /\ pc = "done"
        /\ MEMCHECK_THRESHOLD # None)
    => /\ PairwiseDisjoint
       /\ UNION MemberSets = Range(instance_urls)

\* a run over all the URLs that ends with two groups, one of them of a lock
\* and a verified member
C1_Witness ==
    /\ program = "identify_server_coverage"
    /\ pc = "done"
    /\ Range(instance_urls) = URLS
    /\ Len(groups) = 2
    /\ \E i \in 1..Len(groups) : Cardinality(groups[i].members) >= 2

\* C4: the verified members of Round 2 are a subset of the candidates of
\* Round 1, whatever Round 2 measures, and the committed group adds nothing
\* but the lock instance to them.
C4_ReverificationFilters ==
    program = "identify_server_coverage"
    => /\ verified_members \subseteq CandidateUrls(check_results_round1)
       /\ DOMAIN check_results_round2 \subseteq CandidateUrls(check_results_round1)
       /\ (pc = "loop" /\ DOMAIN check_results_round2 # {})
            => groups[Len(groups)].members
                 \subseteq {lock_url} \cup CandidateUrls(check_results_round1)

\* Round 2 has removed one of several candidates and kept another
C4_Witness ==
    /\ program = "identify_server_coverage"
    /\ pc = "loop"
    /\ DOMAIN check_results_round2 # {}
    /\ verified_members # {}
    /\ verified_members # candidate_urls
    /\ verified_members \subseteq candidate_urls

\* C5: an iteration with lock L removes exactly {L} and the verified
\* members from remaining: a candidate that failed reverification and every
\* non-candidate stays in remaining.
C5_CommitRemovesOnlyGroup ==
    [][(program = "identify_server_coverage" /\ pc \in {"round1", "round2"}
          /\ pc' = "loop")
       => /\ remaining' = remaining \ ({lock_url} \cup verified_members')
          /\ (candidate_urls' \ verified_members') \subseteq remaining'
          /\ (check_urls \ candidate_urls') \subseteq remaining'
          /\ groups' = Append(groups,
                 [lock_url |-> lock_url,
                  members |-> {lock_url} \cup verified_members'])]_vars

\* spec.md section 8: threshold 1000, lock A, Round 1 {B:1500, C:200,
\* D:1100}, Round 2 {B:1400, D:50}: group {A,B}, remaining {C,D}
C5_Witness ==
    /\ program = "identify_server_coverage"
    /\ pc = "loop"
    /\ MEMCHECK_THRESHOLD = 1000
    /\ lock_url = "A"
    /\ DOMAIN check_results_round1 = {"B", "C", "D"}
    /\ check_results_round1["B"] = 1500
    /\ check_results_round1["C"] = 200
    /\ check_results_round1["D"] = 1100
    /\ candidate_urls = {"B", "D"}
    /\ DOMAIN check_results_round2 = {"B", "D"}
    /\ check_results_round2["B"] = 1400
    /\ check_results_round2["D"] = 50
    /\ groups = <<[lock_url |-> "A", members |-> {"A", "B"}]>>
    /\ remaining = {"C", "D"}

\* the co-residency classes of the ideal oracle among the input instances
ServerClasses ==
    {{v \in Range(instance_urls) : server[v] = server[u]} :
        u \in Range(instance_urls)}

\* C8: against the ideal oracle the returned groups are exactly the
\* co-residency classes, each once, whichever lock is selected.
C8_IdealPartition ==
    (program = "identify_server_coverage" /\ oracle = "ideal" /\ pc = "done")
    => /\ MemberSets = ServerClasses
       /\ Len(groups) = Cardinality(ServerClasses)

\* all URLs on two servers, two instances on each
C8_Witness ==
    /\ program = "identify_server_coverage"
    /\ oracle = "ideal"
    /\ pc = "done"
    /\ Range(instance_urls) = URLS
    /\ Len(groups) = 2
    /\ \A i \in 1..Len(groups) : Cardinality(groups[i].members) >= 2

(***************************************************************************)
(* Claims about identify_server_sharing and about both partitioners.       *)
(***************************************************************************)

\* C2: in identify_server_sharing the committed groups are pairwise
\* disjoint and disjoint from remaining, and groups and remaining together
\* are set(all_instance_ids); on return with the threshold set remaining is
\* empty, so the groups partition the instances.
C2_SharingPartition ==
    (program = "identify_server_sharing" /\ pc # "start")
    => /\ \A i, j \in 1..Len(groups) : i # j => groups[i] \cap groups[j] = {}
       /\ \A i \in 1..Len(groups) : groups[i] \cap remaining = {}
       /\ UNION {groups[i] : i \in 1..Len(groups)} \cup remaining
            = Range(all_instance_ids)
       /\ (pc = "done" /\ SERVER_SHARING_THRESHOLD # None) => remaining = {}

\* every instance is known and the run returns two groups
C2_Witness ==
    /\ program = "identify_server_sharing"
    /\ pc = "done"
    /\ Range(all_instance_ids) = IDS
    /\ Len(groups) = 2
    /\ \E i \in 1..Len(groups) : Cardinality(groups[i]) >= 2

\* C3: in both partitioners a step that appends a group makes remaining
\* strictly smaller, and no step of the loop makes remaining grow.
C3_MonotonicShrink ==
    [][/\ Len(groups') > Len(groups)
            => Cardinality(remaining') < Cardinality(remaining)
       /\ pc # "start" => remaining' \subseteq remaining]_vars

\* identify_server_sharing has committed a group of two and one instance
\* is left
C3_Witness ==
    /\ program = "identify_server_sharing"
    /\ pc = "loop"
    /\ Range(all_instance_ids) = IDS
    /\ Len(groups) = 1
    /\ Cardinality(groups[1]) = 2
    /\ Cardinality(remaining) = Cardinality(IDS) - 2

\* the finite metrics of the first k measurements attributed to id
FiniteMetrics(id, k) ==
    {measurements[i].sum_count :
        i \in {j \in 1..k : /\ measurements[j].instance_id = id
                            /\ measurements[j].sum_count # Inf}}

SetMax(S) == CHOOSE x \in S : \A y \in S : y <= x

\* C9: while a batch is aggregated, inst_metric holds, for every remaining
\* instance with a finite measurement read so far, the maximum of these
\* measurements, whatever the order of the list; a later lower value never
\* lowers it.
C9_MaxAggregation ==
    (program = "identify_server_sharing" /\ pc = "aggregate")
    => /\ DOMAIN inst_metric
            = {id \in remaining : FiniteMetrics(id, aggregated) # {}}
       /\ \A id \in DOMAIN inst_metric :
            inst_metric[id] = SetMax(FiniteMetrics(id, aggregated))

\* the same instance measured 1500 and then 200: the aggregate stays 1500
C9_Witness ==
    /\ program = "identify_server_sharing"
    /\ pc = "aggregate"
    /\ aggregated = 2
    /\ measurements[1].instance_id = measurements[2].instance_id
    /\ measurements[1].instance_id \in remaining
    /\ measurements[1].sum_count = 1500
    /\ measurements[2].sum_count = 200
    /\ inst_metric[measurements[1].instance_id] = 1500

\* C10: an iteration of identify_server_sharing that commits nothing is
\* retried a bounded number of times only: from every loop head with
\* instances remaining the run goes on to commit a group.
C10_BoundedRetries ==
    \A n \in 1..Cardinality(IDS) :
        (program = "identify_server_sharing" /\ pc = "loop"
            /\ Cardinality(remaining) = n)
        ~> (Cardinality(remaining) < n)

\* the lock of this iteration went to an instance that is unidentified or
\* already grouped (lines 172, 177)
StaleLock ==
    /\ program = "identify_server_sharing"
    /\ pc = "locked"
    /\ (lock_instance_id = "unknown" \/ lock_instance_id \notin remaining)

\* C11: when the instance that handled /lock is unidentified or is not in
\* remaining, the iteration is discarded: the step out of it leaves
\* remaining and groups as they were, issues no /check probe (the batch of
\* measurements stays empty) and goes back to the loop head.
C11_StaleLockMutatesNothing ==
    [][StaleLock =>
          /\ remaining' = remaining
          /\ groups' = groups
          /\ measurements = <<>>
          /\ measurements' = <<>>
          /\ pc' = "loop"]_vars

\* a lock taken by an instance grouped earlier has been discarded
C11_Witness ==
    /\ program = "identify_server_sharing"
    /\ pc = "loop"
    /\ measurements = <<>>
    /\ groups # <<>>
    /\ remaining # {}
    /\ lock_instance_id \in Range(all_instance_ids) \ remaining

\* C12: with the threshold None both partitioners return at once with an
\* empty group list: the run is never inside the loop, no /lock, /check or
\* /instance_id answer has been read, and after the return no step is left
\* (nothing is retried).
C12_UnsetThresholdReturnsEmpty ==
    /\ (program = "identify_server_coverage" /\ MEMCHECK_THRESHOLD = None)
       => /\ pc \in {"start", "done"}
          /\ groups = <<>>
          /\ lock_url = ""
          /\ check_results_round1 = <<>>
          /\ check_results_round2 = <<>>
          /\ pc = "done" => ~ENABLED NextCoverage
    /\ (program = "identify_server_sharing"
          /\ SERVER_SHARING_THRESHOLD = None)
       => /\ pc \in {"start", "done"}
          /\ groups = <<>>
          /\ lock_instance_id = ""
          /\ measurements = <<>>
          /\ pc = "done" => ~ENABLED NextSharing

\* identify_server_sharing has returned with instances still in remaining
C12_Witness ==
    /\ program = "identify_server_sharing"
    /\ SERVER_SHARING_THRESHOLD = None
    /\ pc = "done"
    /\ remaining = IDS
    /\ groups = <<>>

(***************************************************************************)
(* Claims about binary_search_localization.                                *)
(***************************************************************************)

RECURSIVE CeilLog2(_)
\* the least k with 2^k >= n, for n >= 1
CeilLog2(n) == IF n <= 1 THEN 0 ELSE 1 + CeilLog2((n + 1) \div 2)

RECURSIVE FloorLog2(_)
\* the greatest k with 2^k <= n, for n >= 1
FloorLog2(n) == IF n <= 1 THEN 0 ELSE 1 + FloorLog2(n \div 2)

\* C6 as stated: binary_search_localization returns after exactly
\* ceil(log2(N)) trigger/measure rounds, whatever the outcomes.
C6_ExactlyCeilLog2Rounds ==
    (program = "binary_search_localization" /\ pc = "done")
    => step = CeilLog2(Len(instances))

\* C6 amended: for a list of N >= 1 instances binary_search_localization
\* never raises, can always take a step until it returns, performs at most
\* ceil(log2(N)) rounds, and returns after at least floor(log2(N)) and at
\* most ceil(log2(N)) rounds exactly one instance, an instance of the list.
C6_RoundsBetweenFloorAndCeilLog2 ==
    (program = "binary_search_localization" /\ Len(instances) >= 1)
    => /\ pc # "IndexError"
       /\ pc # "done" => ENABLED NextLocator
       /\ step <= CeilLog2(Len(instances))
       /\ pc = "done"
            => /\ FloorLog2(Len(instances)) <= step
               /\ Len(candidates) = 1
               /\ result = candidates[1]
               /\ result \in Range(instances)

\* three instances and a slow victim in step 1: one round, not two
C6_Witness ==
    /\ program = "binary_search_localization"
    /\ pc = "done"
    /\ Len(instances) = 3
    /\ step = 1
    /\ result = "x1"

\* C7: against the ideal oracle binary_search_localization returns the
\* co-resident instance, for every list of at least one instance and every
\* position of that instance; the instance is never split away.
C7_IdealBisection ==
    (program = "binary_search_localization" /\ oracle = "ideal"
        /\ Len(instances) >= 1)
    => /\ pc \in {"loop", "done"} => coresident \in Range(candidates)
       /\ pc = "done" => result = coresident

\* spec.md section 8: x3 of [x1..x8] is found in three steps
C7_Witness ==
    /\ program = "binary_search_localization"
    /\ oracle = "ideal"
    /\ pc = "done"
    /\ Len(instances) = 8
    /\ coresident = "x3"
    /\ result = "x3"
    /\ step = 3

(***************************************************************************)
(* Claims about find_candidate_set and main() of the locator.              *)
(***************************************************************************)

\* find_candidate_set has returned
ScanReturned == candidate_idx # Unassigned

\* the indexes (from 0) of the non-empty sets up to index last
NonEmptyUpTo(last) ==
    {i \in 0..last : i < Len(cpu_sets) /\ cpu_sets[i + 1].instances # <<>>}

\* C13: find_candidate_set scans the sets in input order and returns the
\* index of the first set measured at or above the threshold: the sets
\* locked and measured are the non-empty sets up to the returned index, in
\* increasing order, every one before the returned set was below the
\* threshold, and no set after it is ever triggered or measured.
C13_FirstQualifyingSet ==
    /\ \A k \in 1..Len(tested) - 1 : tested[k].idx < tested[k + 1].idx
    /\ (ScanReturned /\ candidate_idx >= 0)
       => /\ candidate_idx < Len(cpu_sets)
          /\ {tested[k].idx : k \in 1..Len(tested)}
               = NonEmptyUpTo(candidate_idx)
          /\ tested[Len(tested)].idx = candidate_idx
          /\ tested[Len(tested)].median >= LatencyThreshold
          /\ \A k \in 1..Len(tested) - 1 :
                tested[k].median < LatencyThreshold

\* the second of three sets is returned: the first was measured below the
\* threshold, the third is not measured
C13_Witness ==
    /\ Len(cpu_sets) = 3
    /\ cpu_sets[3].instances # <<>>
    /\ candidate_idx = 1
    /\ Len(tested) = 2
    /\ tested[1].median = 300
    /\ tested[2].median = LatencyThreshold

\* no measured set reached the threshold
NoneQualifies ==
    \A k \in 1..Len(tested) : tested[k].median < LatencyThreshold

\* C14: when no set's median reaches the threshold, find_candidate_set
\* returns -1 and main() ends: no bisection step is performed, no instance
\* is reported as co-resident, and no step follows the exit.
C14_NoCandidateIsFailure ==
    (ScanReturned /\ (NoneQualifies \/ candidate_idx < 0))
    => /\ candidate_idx = -1
       /\ NoneQualifies
       /\ program = "target_victim_locator"
       /\ pc \in {"returned", "exit"}
       /\ step = 0
       /\ candidates = <<>>
       /\ result = ""
       /\ reported = ""
       /\ pc = "exit" => ~ENABLED NextMain

\* three non-empty sets were measured below the threshold and main() has
\* exited
C14_Witness ==
    /\ program = "target_victim_locator"
    /\ pc = "exit"
    /\ candidate_idx = -1
    /\ Len(tested) = 3
    /\ reported = ""

(***************************************************************************)
(* Claims about measure_victim_latency.                                    *)
(***************************************************************************)

\* the requests of the batch that succeeded
Succeeded ==
    {k \in 1..Len(victim_responses) : victim_responses[k].ok}

\* the j-th smallest latency of the succeeded requests, by counting
RankedLatency(j) ==
    CHOOSE v \in {victim_responses[k].elapsed : k \in Succeeded} :
        /\ Cardinality({k \in Succeeded : victim_responses[k].elapsed < v})
             < j
        /\ Cardinality({k \in Succeeded : victim_responses[k].elapsed <= v})
             >= j

\* the median of the latencies of the succeeded requests
MedianOfSucceeded ==
    LET n == Cardinality(Succeeded)
    IN  IF n % 2 = 1
          THEN RankedLatency((n + 1) \div 2)
          ELSE (RankedLatency(n \div 2) + RankedLatency(n \div 2 + 1)) \div 2

\* C15: measure_victim_latency returns the median of the latencies of the
\* requests that succeeded, whatever the failed ones did, and returns inf
\* exactly when no request succeeded (an empty batch included).
C15_MedianOfSucceeded ==
    (program = "measure_victim_latency" /\ pc = "done")
    => /\ Len(victim_responses) = runs
       /\ (median_latency = Inf) <=> (Succeeded = {})
       /\ Succeeded # {} => median_latency = MedianOfSucceeded

\* 800 ms, a failure after 300 ms, 300 ms: the median is the mean 550 ms
C15_Witness ==
    /\ program = "measure_victim_latency"
    /\ pc = "done"
    /\ runs = 3
    /\ victim_responses[1] = [ok |-> TRUE, elapsed |-> 800]
    /\ victim_responses[2] = [ok |-> FALSE, elapsed |-> 300]
    /\ victim_responses[3] = [ok |-> TRUE, elapsed |-> 300]
    /\ median_latency = 550

(***************************************************************************)
(* Claims about prepare_attacker_sets.py.                                  *)
(***************************************************************************)

\* the cpu_sets were written
Reduced == program = "prepare_attacker_sets" /\ pc = "done"

\* the URLs of architecture set s before and after the reduction
SetUrls(s) == Range(arch_to_urls[s].urls)

SetReps(s) == Range(cpu_sets[s].instances)

\* the server groups with a member URL in architecture set s
GroupsIn(s) ==
    {j \in 1..Len(groups) : groups[j].members \cap SetUrls(s) # {}}

\* the URLs that are members of a server group
GroupedUrls == UNION {groups[j].members : j \in 1..Len(groups)}

\* C16: in every architecture set of the output no two representatives
\* belong to the same server group, and every server group with a member
\* URL in the set has exactly one representative in it.
C16_OneRepresentativePerServer ==
    Reduced =>
      /\ Len(cpu_sets) = Len(arch_to_urls)
      /\ \A s \in 1..Len(cpu_sets) :
           /\ SetReps(s) \subseteq SetUrls(s)
           /\ Len(cpu_sets[s].instances) = Cardinality(SetReps(s))
           /\ \A j \in 1..Len(groups) :
                 Cardinality(groups[j].members \cap SetReps(s)) <= 1
           /\ \A j \in GroupsIn(s) :
                 Cardinality(groups[j].members \cap SetReps(s)) = 1

\* three URLs of one architecture, two of them on one server: two
\* representatives
C16_Witness ==
    /\ Reduced
    /\ Len(cpu_sets) = 1
    /\ SetUrls(1) = {"u1", "u2", "u3"}
    /\ Len(groups) = 2
    /\ groups[1].members = {"u1", "u3"}
    /\ groups[2].members = {"u2"}
    /\ Cardinality(SetReps(1)) = 2

\* the architecture key under which entry k of the URL list is filed
EntryKey(k) ==
    IF info_responses[k].kind = "object"
         /\ info_responses[k].data.cpu_brand # NoBrand
      THEN [cpu_brand |-> info_responses[k].data.cpu_brand,
            parsed_freq |-> info_responses[k].data.parsed_freq]
      ELSE [cpu_brand |-> "unknown", parsed_freq |-> None]

\* the first URL, in the order of the URL list, that is a member of server
\* group j and is filed in architecture set s
FirstInInputOrder(s, j) ==
    LET entries == {k \in 1..Len(url_list) :
                       /\ url_list[k] \in groups[j].members
                       /\ EntryKey(k) = arch_to_urls[s].key}
    IN  url_list[CHOOSE k \in entries : \A l \in entries : k <= l]

\* C17: the representative kept for a server group within an architecture
\* set is the group's first member in the input order of the URL list,
\* whatever the order in which the /info requests completed.
C17_RepresentativeIsFirstInInputOrder ==
    Reduced =>
      \A s \in 1..Len(cpu_sets) :
         \A j \in GroupsIn(s) : FirstInInputOrder(s, j) \in SetReps(s)

\* C18: a URL that is in no server group is a group of its own: it is kept
\* in its architecture set, and the set keeps one representative for each
\* server group in it beside the ungrouped URLs, so an ungrouped URL
\* neither takes the place of a representative nor loses its own.
C18_UngroupedUrlsAreKept ==
    Reduced =>
      \A s \in 1..Len(cpu_sets) :
         /\ SetUrls(s) \ GroupedUrls \subseteq SetReps(s)
         /\ Cardinality(SetReps(s))
              = Cardinality(SetUrls(s) \ GroupedUrls)
                  + Cardinality(GroupsIn(s))

\* two ungrouped URLs and one grouped URL of one architecture: all kept
C18_Witness ==
    /\ Reduced
    /\ Len(cpu_sets) = 1
    /\ groups = <<[lock_url |-> "u2", members |-> {"u2"}]>>
    /\ cpu_sets[1].instances = <<"u1", "u2", "u3">>

\* group_by_architecture has returned
Grouped ==
    /\ program = "prepare_attacker_sets"
    /\ pc \in {"grouping", "done"}
    /\ pending_futures = {}

\* the architecture sets a URL is in
SetsOf(url) == {s \in 1..Len(arch_to_urls) : url \in SetUrls(s)}

\* the (cpu_brand, parsed_freq) pair the request of entry k reported; a
\* request that failed or had no JSON object reported neither
ReportedPair(k) ==
    IF info_responses[k].kind = "object" THEN info_responses[k].data
    ELSE NoInfo

\* C19 as stated: every input URL is in exactly one architecture set, and
\* two URLs are in the same set if and only if their reported
\* (cpu_brand, parsed_freq) pairs are equal.
C19_PartitionByReportedPair ==
    Grouped =>
      /\ \A k \in 1..Len(url_list) : Cardinality(SetsOf(url_list[k])) = 1
      /\ \A k, l \in 1..Len(url_list) :
            (SetsOf(url_list[k]) \cap SetsOf(url_list[l]) # {})
              <=> (ReportedPair(k) = ReportedPair(l))

\* how often url is listed in sequence seq
Count(seq, url) == Cardinality({k \in 1..Len(seq) : seq[k] = url})

\* C19, amended: every entry of the URL list is filed in exactly one
\* architecture set, the set of its architecture key, so two entries are
\* in the same set if and only if their keys are equal; the key is the
\* reported pair when a cpu_brand was reported (two null frequencies being
\* equal) and ("unknown", null) otherwise.
C19_PartitionByArchitectureKey ==
    Grouped =>
      /\ \A s, t \in 1..Len(arch_to_urls) :
            arch_to_urls[s].key = arch_to_urls[t].key => s = t
      /\ \A k \in 1..Len(url_list) :
            \E s \in 1..Len(arch_to_urls) : arch_to_urls[s].key = EntryKey(k)
      /\ \A s \in 1..Len(arch_to_urls) :
            \A url \in PrepareUrls :
               Count(arch_to_urls[s].urls, url)
                 = Cardinality({k \in 1..Len(url_list) :
                                   /\ url_list[k] = url
                                   /\ EntryKey(k) = arch_to_urls[s].key})

\* two URLs reporting ("amd", null) share a set, a third reporting
\* ("amd", 2000) is in another
C19_Witness ==
    /\ Grouped
    /\ pc = "done"
    /\ url_list = <<"u1", "u2", "u3">>
    /\ ReportedPair(1) = [cpu_brand |-> "amd", parsed_freq |-> None]
    /\ ReportedPair(2) = [cpu_brand |-> "amd", parsed_freq |-> 2000]
    /\ ReportedPair(3) = [cpu_brand |-> "amd", parsed_freq |-> None]
    /\ Len(arch_to_urls) = 2
    /\ SetsOf("u1") = SetsOf("u3")
    /\ SetsOf("u1") # SetsOf("u2")

\* the request of entry k failed, returned no JSON, or reported no
\* cpu_brand
LacksBrand(k) ==
    \/ info_responses[k].kind # "object"
    \/ info_responses[k].data.cpu_brand = NoBrand

\* C20: every URL whose /info request fails, returns non-JSON or lacks
\* cpu_brand is placed in the one ("unknown", null) architecture set,
\* whatever parsed_freq came with it, and no such request keeps the other
\* URLs from being grouped: the grouping never ends without returning.
C20_UnknownCollapsesToOneSet ==
    /\ program = "prepare_attacker_sets" => pc # "AttributeError"
    /\ Grouped =>
         \A k \in 1..Len(url_list) :
            LacksBrand(k) =>
               \E s \in SetsOf(url_list[k]) :
                  \A t \in 1..Len(arch_to_urls) :
                     (arch_to_urls[t].key
                        = [cpu_brand |-> "unknown", parsed_freq |-> None])
                       <=> t = s

(***************************************************************************)
(* Claims about one /check probe and its parsers.                          *)
(***************************************************************************)

\* every occurrence "count[<index>] is <value>" of the body, in reading
\* order
Occurrences(text) == SelectSeq(Joined(text), LAMBDA piece : piece.index # None)

RECURSIVE SumOfValues(_)
SumOfValues(pieces) ==
    IF pieces = <<>> THEN 0 ELSE Head(pieces).value + SumOfValues(Tail(pieces))

\* the sum of all occurrences, +infinity for a body without one
SumOfAllOccurrences(text) ==
    IF Occurrences(text) = <<>> THEN Inf ELSE SumOfValues(Occurrences(text))

\* the probe has parsed the body of a /check response
SumParsed ==
    /\ program = "call_check_and_get_metric_and_id"
    /\ pc # "start"
    /\ check_response.ok

CountExtracted ==
    /\ program = "extract_count"
    /\ pc = "done"
    /\ check_response.ok

\* None is the unmeasurable value of iteration_test.py
Measured(count_value) == IF count_value = None THEN Inf ELSE count_value

FirstAt(line, indices) ==
    CHOOSE i \in 1..Len(line) :
        /\ line[i].index \in indices
        /\ \A j \in 1..(i - 1) : line[j].index \notin indices

Has(line, indices) == \E i \in 1..Len(line) : line[i].index \in indices

\* the sum over the first k lines of the value of each line's first
\* occurrence
RECURSIVE FirstOfEachLine(_, _)
FirstOfEachLine(text, k) ==
    IF k = 0
      THEN 0
      ELSE FirstOfEachLine(text, k - 1)
             + (IF Has(text[k], {0, 1})
                  THEN text[k][FirstAt(text[k], {0, 1})].value ELSE 0)

C24_IdentifyHandlerNeverRaises ==
    program = "call_check_and_get_metric_and_id" =>
        /\ pc \in {"start", "identify", "done"}
        /\ (pc = "done" /\ check_response.ok) =>
             worker_result.instance_id =
                 IF id_response.kind = "object" /\ id_response.instance_id # NoKey
                   THEN id_response.instance_id ELSE "unknown"

(***************************************************************************)
(* Claims about the thread pools.                                          *)
(***************************************************************************)

\* run_iteration_for_lock returns in this step
Returning == ipc = "collect" /\ ipc' = "idle"

\* the text of a response holds no "count[0] is <integer>"
Unparsable(response) ==
    \A k \in 1..Len(response.text) :
        \A i \in 1..Len(response.text[k]) : response.text[k][i].index # 0

\* the calling thread takes the result of this task in this step
Collecting(url) ==
    /\ url \in DOMAIN futures
    /\ futures[url].state = "done"
    /\ url \in DOMAIN futures'
    /\ futures'[url].state = "collected"

C21_Step ==
    /\ Returning =>
         /\ \A url \in ProbeUrls : futures[url].state = "collected"
         /\ DOMAIN iteration_results = ProbeUrls
         /\ pc = "round1" =>
              /\ check_results_round1' = iteration_results
              /\ candidate_urls' =
                     {url \in check_urls :
                         AboveThreshold(iteration_results[url])}
         /\ pc = "round2" =>
              /\ check_results_round2' = iteration_results
              /\ verified_members' =
                     {url \in candidate_urls :
                         AboveThreshold(iteration_results[url])}
    /\ \A url \in URLS :
         Collecting(url) =>
           /\ url \in DOMAIN iteration_results'
           /\ iteration_results'[url] = None
                <=> (~futures[url].response.ok
                       \/ Unparsable(futures[url].response))

\* C21: run_iteration_for_lock returns only when every dispatched /check
\* task has completed and been collected, whatever the order of completion;
\* the mapping it returns has exactly one entry per URL of check_urls, None
\* for a failed or unparsable probe, and the candidates of Round 1 and the
\* verified members of Round 2 are computed from that complete mapping.
C21_ProbeAllIsABarrier == [][C21_Step]_vars

\* Round 1 over two URLs has returned, one probe failed or was unparsable,
\* the other is a candidate
C21_Witness ==
    /\ program = "identify_server_coverage"
    /\ pc = "round2"
    /\ ipc = "idle"
    /\ Cardinality(DOMAIN check_results_round1) = 2
    /\ \E url \in check_urls : check_results_round1[url] = None
    /\ Cardinality(candidate_urls) = 1

C29_Step ==
    /\ (futures = <<>> /\ futures' # <<>>) =>
         /\ ipc = "submit"
         /\ lock_response.state \in {"returned", "failed"}
         /\ lock_response.url = lock_url
    /\ (ipc' = "submit" /\ ipc # "submit") => ipc = "sleep"
    /\ (ipc' = "sleep" /\ ipc # "sleep") =>
         /\ ipc = "lock"
         /\ lock_response.state = "pending"
         /\ lock_response'.state \in {"returned", "failed"}
    /\ (ipc' = "lock" /\ ipc # "lock") =>
         /\ ipc = "idle"
         /\ futures = <<>>
         /\ lock_response' = [url |-> lock_url, state |-> "pending"]
    /\ (ipc = "idle" /\ pc = "round2") => (ipc' \in {"idle", "lock"} /\ pc' = pc)
    /\ (ipc = "sleep" /\ lock_response.state = "failed") =>
         (ipc' \in {"sleep", "submit"} /\ pc' = pc)
    /\ pc \in {"round1", "round2"} => lock_url' = lock_url

\* C29: in every call of run_iteration_for_lock the /lock request to the
\* lock URL is sent first, it has returned or failed and the settle delay
\* is over before the first /check task is submitted; Round 2 starts with a
\* fresh /lock to the same lock URL, and after a failed /lock the round
\* goes on to its probes.
C29_TriggerPrecedesProbes == [][C29_Step]_vars

\* Round 2 is probing its candidates after its own /lock failed
C29_Witness ==
    /\ program = "identify_server_coverage"
    /\ pc = "round2"
    /\ ipc = "collect"
    /\ lock_response = [url |-> lock_url, state |-> "failed"]
    /\ \E url \in candidate_urls : futures[url].state = "collected"

\* a worker thread is running a task of the pool
TasksRunning == \E task \in DOMAIN futures : futures[task].state = "running"

\* a worker thread finishes its task in this step
WorkerStep ==
    \E task \in DOMAIN futures :
        /\ futures[task].state = "running"
        /\ task \in DOMAIN futures'
        /\ futures'[task].state = "done"

C30_Step ==
    /\ WorkerStep =>
         UNCHANGED <<remaining, groups, inst_metric, measurements,
                     iteration_results, check_results_round1,
                     check_results_round2, candidate_urls>>
    /\ (remaining' # remaining \/ groups' # groups
          \/ inst_metric' # inst_metric) =>
         /\ ~TasksRunning
         /\ ~WorkerStep
         /\ \A task \in DOMAIN futures : futures[task].state = "collected"

\* C30: in both partitioners remaining, groups and the aggregation map
\* change only in steps of the orchestrating thread taken while no task of
\* a fan-out is running, and no step of a worker changes them or the
\* collected results.
C30_NoMutationDuringFanOut == [][C30_Step]_vars

\* a group is committed after a fan-out whose tasks were answered by
\* different instances
C30_Witness ==
    /\ program = "identify_server_sharing"
    /\ pc = "loop"
    /\ Len(groups) = 1
    /\ Len(measurements) = NUM_CHECK_REQUESTS
    /\ measurements[1].instance_id # measurements[2].instance_id
    /\ inst_metric # <<>>

(***************************************************************************)
(* Claims about unattributable measurements.                               *)
(***************************************************************************)

\* the measurements whose identity probe named an instance
Attributed(ms) == SelectSeq(ms, LAMBDA m : m.instance_id # "unknown")

\* the loop of lines 194-206 over a list of measurements
RECURSIVE AggregateAll(_, _, _)
AggregateAll(metric, ms, rem) ==
    IF ms = <<>>
      THEN metric
      ELSE AggregateAll(Aggregate(metric, Head(ms), rem), Tail(ms), rem)

C23_Step ==
    /\ (pc = "aggregate" /\ aggregated' = aggregated + 1
          /\ measurements[aggregated + 1].instance_id = "unknown") =>
         inst_metric' = inst_metric
    /\ (pc = "aggregate" /\ pc' = "loop") =>
         /\ inst_metric = AggregateAll(<<>>, Attributed(measurements), remaining)
         /\ groups'[Len(groups')] =
                SharingGroup(lock_instance_id,
                             AggregateAll(<<>>, Attributed(measurements),
                                          remaining))
    /\ "unknown" \notin DOMAIN inst_metric'
    /\ \A i \in 1..Len(groups') : "unknown" \notin groups'[i]

\* C23: in identify_server_sharing a measurement whose identity probe
\* yielded "unknown" leaves the aggregated metric of every instance as it
\* was, and the committed group is the group of the other measurements
\* alone: such a measurement adds no instance to a group.
C23_UnknownIsDiscarded == [][C23_Step]_vars

\* a group is committed after a fan-out in which an unattributable
\* measurement was at or above the threshold
C23_Witness ==
    /\ program = "identify_server_sharing"
    /\ pc = "loop"
    /\ Len(groups) >= 1
    /\ \E i \in 1..Len(measurements) :
         /\ measurements[i].instance_id = "unknown"
         /\ measurements[i].sum_count # Inf
         /\ measurements[i].sum_count >= SERVER_SHARING_THRESHOLD
    /\ groups[Len(groups)] = {lock_instance_id}

(***************************************************************************)
(* Claims about the steps of the bisection.                                *)
(***************************************************************************)

\* a contiguous, non-empty part of the list
ContiguousPart(part, list) ==
    \E i, j \in 1..Len(list) : i <= j /\ part = SubSeq(list, i, j)

C25_Step ==
    LET n == Len(candidates)
    IN  /\ (pc = "loop" /\ pc' = "measured") =>
             /\ n > 1
             /\ left' = SubSeq(candidates, 1, n \div 2)
             /\ candidates' = candidates
        /\ (pc = "measured" /\ pc' = "loop") =>
             /\ left = SubSeq(candidates, 1, n \div 2)
             /\ candidates' =
                    IF probed_median >= LatencyThreshold
                      THEN SubSeq(candidates, 1, n \div 2)
                      ELSE SubSeq(candidates, n \div 2 + 1, n)
             /\ Len(candidates') < n
        /\ (Len(instances) >= 1 /\ pc' \in {"loop", "measured", "done"}) =>
             ContiguousPart(candidates', instances)
        /\ pc' = "done" => result' = candidates'[1]

\* C25: in each step of binary_search_localization with n = len(candidates)
\* > 1 the tested left half is candidates[:n // 2] and the next candidate
\* list is that half if median >= threshold and candidates[n // 2:]
\* otherwise; the candidate list of a non-empty input is always a non-empty
\* contiguous part of the input and strictly shorter after each step.
C25_BisectionStepRule == [][C25_Step]_vars

\* the outcomes (>=, <, >=) on [x1..x8] return x3
C25_Witness ==
    /\ program = "binary_search_localization"
    /\ oracle = "any"
    /\ pc = "done"
    /\ instances = SubSeq(InstanceNames, 1, 8)
    /\ step = 3
    /\ probed_median >= LatencyThreshold
    /\ left = <<"x3">>
    /\ result = "x3"

(***************************************************************************)
(* Claims about termination of the partitioners.                           *)
(***************************************************************************)

\* the number of instance URLs handed to identify_server_coverage
InputSize == Len(instance_urls)

\* an iteration of the while loop of line 161 ends in this step
IterationEnds ==
    \/ pc \in {"round1", "round2"} /\ pc' = "loop"
    \/ pc = "loop" /\ pc' = "done" /\ remaining # {}

C26_Bounds ==
    /\ Len(groups) <= InputSize
    /\ \A i \in 1..Len(groups) :
         /\ groups[i].members # {}
         /\ groups[i].lock_url \in groups[i].members
    /\ pc = "done" =>
         /\ remaining = {}
         /\ InputSize >= 1 => Len(groups) >= 1

\* C26: for N distinct instance URLs and any outcome of every HTTP call,
\* identify_server_coverage terminates; every iteration appends one group
\* and there are never more than N groups, so it terminates after at most N
\* iterations, with remaining empty and between 1 and N groups (N >= 1),
\* each of them non-empty and containing its own lock_url.
C26_CoverageTerminates ==
    /\ [][IterationEnds => Len(groups') = Len(groups) + 1]_vars
    /\ [](program = "identify_server_coverage" => C26_Bounds)
    /\ <>(pc = "done")

\* three instances, three iterations, three groups
C26_Witness ==
    /\ program = "identify_server_coverage"
    /\ ipc = "idle"
    /\ pc = "done"
    /\ InputSize = 3
    /\ Len(groups) = 3
    /\ remaining = {}

\* the /lock of the iteration was handled by an instance still in
\* remaining, and its identity probe said so
LockedByRemaining == pc = "locked" /\ lock_instance_id \in remaining

\* as long as the function has not returned, a /lock is again and again
\* handled by an instance of remaining whose identity probe returns its ID;
\* this holds when every instance still in remaining eventually handles
\* such a /lock
FairRouting == []<>(pc = "done" \/ LockedByRemaining)

\* C27: under fair routing identify_server_sharing eventually empties
\* remaining and returns; and remaining shrinks only in the commit that
\* follows a /lock handled by an instance of remaining, so without such
\* locks the loop does not end.
C27_FairRoutingTerminates ==
    /\ FairRouting => <>(pc = "done")
    /\ [][remaining' # remaining /\ pc # "start" =>
            /\ pc = "aggregate"
            /\ lock_instance_id \in remaining
            /\ lock_instance_id \notin remaining']_vars
    /\ [](pc = "done" /\ SERVER_SHARING_THRESHOLD # None => remaining = {})

\* the function has returned three groups, one per instance
C27_Witness ==
    /\ program = "identify_server_sharing"
    /\ pc = "done"
    /\ Cardinality(Range(all_instance_ids)) = 3
    /\ remaining = {}
    /\ Len(groups) = 3

C28_Step ==
    (pc = "loop" /\ Cardinality(remaining) = 1) =>
        \E url \in remaining :
            /\ groups' = Append(groups, [lock_url |-> url, members |-> {url}])
            /\ remaining' = {}
            /\ pc' = "done"
            /\ UNCHANGED FanOutVars
            /\ ipc = "idle"
            /\ futures = <<>>
            /\ check_results_round1' = <<>>
            /\ check_results_round2' = <<>>

\* C28: when remaining holds exactly one instance at the head of the loop,
\* identify_server_coverage appends the group of that instance alone and
\* leaves the loop; no /lock is sent and no /check task is submitted in
\* that iteration.
C28_LastInstanceIsASingleton == [][C28_Step]_vars

\* the last of three instances was grouped without a probe, after an
\* iteration that grouped the other two
C28_Witness ==
    /\ program = "identify_server_coverage"
    /\ pc = "done"
    /\ InputSize = 3
    /\ Len(groups) = 2
    /\ groups[2] = [lock_url |-> lock_url, members |-> {lock_url}]
    /\ check_urls = {}
    /\ lock_response.state = ""

(***************************************************************************)
(* Claims about the /lock requests of measure_latency_with_lock.           *)
(***************************************************************************)

\* the requests of a list of tasks: which URL, submitted by which round
Submitted(tasks) ==
    {<<tasks[k].url, tasks[k].round>> : k \in 1..Len(tasks)}

\* every URL of the tested set has a /lock task of the current round
AllSubmitted ==
    \A u \in Range(TestedSet) :
        \E k \in TasksOf(idx) : lock_futures[k].url = u

\* the order of the steps of one call: the warm-up begins only after the
\* submissions, with every URL of the set submitted; the measurement begins
\* only after the warm-up; no request is submitted from the warm-up on; the
\* call returns the median it measured
C31_Step ==
    /\ (mpc' = "warmup" /\ mpc # "warmup") => (mpc = "submit" /\ AllSubmitted)
    /\ (mpc' = "measure" /\ mpc # "measure") => mpc = "warmup"
    /\ mpc \in {"warmup", "measure", "shutdown"} =>
           /\ Len(lock_futures') <= Len(lock_futures)
           /\ Submitted(lock_futures') \subseteq Submitted(lock_futures)
    /\ (mpc = "shutdown" /\ mpc' = "idle") =>
           /\ pc' = "scanned"
           /\ tested'[Len(tested')] = [idx |-> idx, median |-> probed_median]

\* C31: in measure_latency_with_lock every /lock request of the tested set
\* is submitted before the warm-up delay begins; the victim measurement
\* starts after the warm-up whatever the state of the /lock requests (no
\* request is waited for); and the function returns its median whatever the
\* state of the /lock requests, pending or failed ones included.
C31_FireAndForget ==
    /\ [][C31_Step]_vars
    /\ [](mpc = "warmup" => ENABLED LockMeasureStart)
    /\ [](mpc = "shutdown" => ENABLED LockShutdown)

\* the call has returned its median to find_candidate_set while one /lock
\* request of the round is still pending and another has failed
C31_Witness ==
    /\ pc = "scanned"
    /\ mpc = "idle"
    /\ tested # <<>>
    /\ tested[Len(tested)].idx = idx
    /\ \E k \in TasksOf(idx) : lock_futures[k].state = "pending"
    /\ \E k \in TasksOf(idx) : lock_futures[k].state = "failed"

\* C32: whenever a round measures victim latency, the only /lock requests
\* still in flight are those the same round dispatched against its tested
\* set: no request of an earlier round is still running.
C32_OnlyOwnLocksInFlight ==
    mpc = "measure" =>
        \A k \in PendingTasks : lock_futures[k].round = idx

(***************************************************************************)
(* Claims about a victim that answers no request.                          *)
(***************************************************************************)

\* finite thresholds: the smallest, the configured one, the largest
FiniteThresholds == {0, LatencyThreshold, Inf - 1}

\* the index find_candidate_set gives the first non-empty set, -1 if every
\* set is empty
FirstNonEmpty(sets) ==
    LET nonempty == {k \in 1..Len(sets) : sets[k].instances # <<>>}
    IN  IF nonempty = {} THEN -1
        ELSE (CHOOSE k \in nonempty : \A j \in nonempty : k <= j) - 1

\* with the victim down: every measurement is +infinity, which passes the
\* threshold test; find_candidate_set returns the first non-empty set; the
\* candidates of the bisection are always a prefix of its input and its
\* result is the first instance
C33_Outage ==
    oracle = "outage" =>
        /\ \A responses \in OutageResponses :
               /\ MeasureVictimLatency(responses) = Inf
               /\ \A t \in FiniteThresholds :
                      IsAboveThreshold(MeasureVictimLatency(responses), t)
        /\ \A k \in 1..Len(tested) : tested[k].median = Inf
        /\ pc \in {"scanned", "measured"} => probed_median = Inf
        /\ (program = "target_victim_locator" /\ pc = "returned") =>
               candidate_idx = FirstNonEmpty(cpu_sets)
        /\ (program = "binary_search_localization"
               /\ pc \in {"loop", "measured", "done"}) =>
               candidates = SubSeq(instances, 1, Len(candidates))
        /\ (program = "binary_search_localization" /\ pc = "done") =>
               result = instances[1]

\* with the victim down every step of the bisection keeps the left half
C33_Step ==
    (oracle = "outage" /\ pc = "measured" /\ pc' # "measured") =>
        candidates' = left

\* C33: if no victim request succeeds in a measurement (every request
\* fails, or probe_runs is 0) the median is +infinity and is_above_threshold
\* is true for every finite threshold; so find_candidate_set selects the
\* first non-empty architecture set and binary_search_localization keeps the
\* left half at every step and returns the first instance of its list.
C33_OutageCountsAsContention ==
    /\ []C33_Outage
    /\ [][C33_Step]_vars

\* the victim is down, the first set is empty, find_candidate_set has
\* selected the second one and the bisection of its instances has returned
\* the first of them
C33_Witness ==
    /\ oracle = "outage"
    /\ program = "binary_search_localization"
    /\ pc = "done"
    /\ Len(cpu_sets) >= 2
    /\ cpu_sets[1].instances = <<>>
    /\ candidate_idx = 1
    /\ Len(tested) = 1
    /\ tested[1] = [idx |-> 1, median |-> Inf]
    /\ Len(instances) >= 2
    /\ step >= 1
    /\ result = cpu_sets[2].instances[1]

(***************************************************************************)
(* Claims about the threshold test of both partitioners.                   *)
(***************************************************************************)

\* the measurements of the batch that name instance id
BatchOf(id) ==
    {k \in 1..Len(measurements) : measurements[k].instance_id = id}

\* Round 1 of identify_server_coverage ends: the candidates were measured at
\* or above the threshold; a URL measured at the threshold is a candidate; a
\* URL whose probe gave None is no candidate and stays in remaining
C34_CandidateStep ==
    (program = "identify_server_coverage" /\ pc = "round1"
        /\ pc' # "round1") =>
        LET round1 == check_results_round1'
        IN  \A u \in check_urls :
                /\ u \in candidate_urls' =>
                       /\ Get(round1, u) # None
                       /\ Get(round1, u) >= MEMCHECK_THRESHOLD
                /\ Get(round1, u) = MEMCHECK_THRESHOLD =>
                       u \in candidate_urls'
                /\ Get(round1, u) = None =>
                       /\ u \notin candidate_urls'
                       /\ u \in remaining'

\* identify_server_coverage appends a group: every member other than the
\* lock instance was measured in both rounds at or above the threshold; a
\* candidate measured at the threshold in Round 2 is a member; a URL whose
\* probe gave None in either round is no member and stays in remaining
C34_CoverageStep ==
    (program = "identify_server_coverage" /\ pc \in {"round1", "round2"}
        /\ Len(groups') > Len(groups)) =>
        LET members == groups'[Len(groups')].members
            round1 == check_results_round1'
            round2 == check_results_round2'
        IN  /\ \A u \in members \ {lock_url} :
                   /\ u \in check_urls
                   /\ Get(round1, u) # None
                   /\ Get(round1, u) >= MEMCHECK_THRESHOLD
                   /\ pc = "round2"
                   /\ Get(round2, u) # None
                   /\ Get(round2, u) >= MEMCHECK_THRESHOLD
            /\ \A u \in check_urls :
                   /\ (pc = "round2" /\ u \in candidate_urls
                          /\ Get(round2, u) = MEMCHECK_THRESHOLD) =>
                          u \in members
                   /\ (Get(round1, u) = None
                          \/ (pc = "round2" /\ Get(round2, u) = None)) =>
                          /\ u \notin members
                          /\ u \in remaining'

\* identify_server_sharing appends a group: every member other than the
\* lock instance was in remaining and has a finite measurement at or above
\* the threshold; an instance of remaining measured at the threshold is a
\* member; an instance whose measurements are all inf is no member and stays
\* in remaining
C34_SharingStep ==
    (program = "identify_server_sharing" /\ Len(groups') > Len(groups)) =>
        LET group == groups'[Len(groups')]
        IN  /\ \A id \in group \ {lock_instance_id} :
                   /\ id \in remaining
                   /\ \E k \in BatchOf(id) :
                          /\ measurements[k].sum_count # Inf
                          /\ measurements[k].sum_count
                                 >= SERVER_SHARING_THRESHOLD
            /\ \A id \in remaining \ {lock_instance_id} :
                   /\ (\E k \in BatchOf(id) :
                          measurements[k].sum_count
                              = SERVER_SHARING_THRESHOLD) => id \in group
                   /\ (\A k \in BatchOf(id) :
                          measurements[k].sum_count = Inf) =>
                          /\ id \notin group
                          /\ id \in remaining'

\* C34: in both partitioners an instance other than the lock instance joins
\* a group only if a measured, finite metric attributed to it is at or above
\* the threshold, and a metric equal to the threshold qualifies; an instance
\* whose measurements in the batch are all unmeasurable (None in the
\* multi-URL partitioner, +infinity in the shared-URL one) is never made a
\* candidate or member and stays in remaining.
C34_TiesKeptUnmeasurableExcluded ==
    [][C34_CandidateStep /\ C34_CoverageStep /\ C34_SharingStep]_vars

\* identify_server_coverage has committed a group with a member measured
\* exactly at the threshold in both rounds, while a URL whose Round 1 probe
\* gave None is still in remaining
C34_Witness ==
    /\ program = "identify_server_coverage"
    /\ pc = "loop"
    /\ groups # <<>>
    /\ \E u \in groups[Len(groups)].members \ {lock_url} :
           /\ Get(check_results_round1, u) = MEMCHECK_THRESHOLD
           /\ Get(check_results_round2, u) = MEMCHECK_THRESHOLD
    /\ \E u \in remaining :
           /\ u \in check_urls
           /\ Get(check_results_round1, u) = None

====
